---------------------------- MODULE Spec2Model ----------------------------
(***************************************************************************)
(* A model of ParseStudio's adapter layer (src/parsestudio): the parse     *)
(* entry point of every adapter, the markdown table extraction of the LLM  *)
(* adapters, the file-search adapter's per-document resource handling, the *)
(* vision adapter's per-page retry loop and the assistant-run polling.     *)
(*                                                                         *)
(* Text is modelled as a sequence of one-character strings, so that        *)
(* splitting, stripping and trimming are computed, not assumed.            *)
(***************************************************************************)
EXTENDS Integers, Sequences, FiniteSets, TLC

(***************************************************************************)
(* Bounds of the model.                                                    *)
(***************************************************************************)
\* longest markdown text of a raw table that is enumerated
MaxMdLen == 6
\* most paths in one parse call
MaxPaths == 3
\* most names in an enumerated modalities list
MaxModalities == 2
\* most documents in one load_documents call of the file-search adapter
MaxFsDocs == 2
\* largest retries argument of the vision adapter's page analysis
MaxRetriesArg == 4
\* most pages (page numbers) of a document
MaxPages == 2
\* most tool calls in one requires_action round
MaxToolCalls == 2
MaxItems == 3
\* most calls made on one instance of a lazily initialised parser
MaxLazyCalls == 3
\* seconds one status request of an assistant run takes
CallSeconds == 87

(***************************************************************************)
(* Text helpers (Python str methods, computed on character sequences).     *)
(***************************************************************************)
NL == "\n"
PIPE == "|"
\* the characters markdown inputs are drawn from
Alphabet == {PIPE, "a", " ", NL}
\* what str.strip() with no argument removes
Whitespace == {" ", NL}

SeqMin(S) == CHOOSE x \in S : \A y \in S : x <= y
SeqMax(S) == CHOOSE x \in S : \A y \in S : x >= y

\* every text over Alphabet of at most n characters
Texts(n) == UNION {[1..k -> Alphabet] : k \in 0..n}

\* str.strip(chars): every leading and every trailing character of cs goes
StripChars(s, cs) ==
    LET keep == {i \in 1..Len(s) : s[i] \notin cs}
    IN  IF keep = {} THEN <<>> ELSE SubSeq(s, SeqMin(keep), SeqMax(keep))

\* str.strip()
Strip(s) == StripChars(s, Whitespace)

\* str.split(sep): always at least one piece, empty pieces kept
RECURSIVE SplitOn(_, _)
SplitOn(s, sep) ==
    LET hits == {i \in 1..Len(s) : s[i] = sep}
    IN  IF hits = {} THEN <<s>>
        ELSE LET k == SeqMin(hits)
             IN  <<SubSeq(s, 1, k - 1)>> \o SplitOn(SubSeq(s, k + 1, Len(s)), sep)

\* str.splitlines(): split at line breaks, no empty piece after a final break
SplitLines(s) ==
    LET parts == SplitOn(s, NL)
    IN  IF parts[Len(parts)] = <<>> THEN SubSeq(parts, 1, Len(parts) - 1) ELSE parts

MapStrip(cells) == [i \in 1..Len(cells) |-> Strip(cells[i])]

IsNonBlank(ln) == Strip(ln) # <<>>

\* Python's any(cells) on a list of strings: some cell is not ""
AnyCell(cells) == \E i \in 1..Len(cells) : cells[i] # <<>>

(***************************************************************************)
(* pandas.DataFrame(rows, columns=hdr) on a list of lists: shorter rows    *)
(* are padded to the longest row, and the call raises ValueError unless    *)
(* the longest row has exactly as many cells as there are columns.  With   *)
(* no rows the frame is DataFrame(columns=hdr), which never raises.        *)
(***************************************************************************)
RowWidth(rows) == SeqMax({Len(rows[i]) : i \in 1..Len(rows)})

DataFrameOk(rows, hdr) == rows = <<>> \/ RowWidth(rows) = Len(hdr)

(***************************************************************************)
(* The markdown table parse of the OpenAI adapters (vision and             *)
(* file-search carry the same code).                                       *)
(***************************************************************************)
\* lines = [ln for ln in md.splitlines() if ln.strip()]
NonBlankLines(md) == SelectSeq(SplitLines(md), IsNonBlank)

\* [c.strip() for c in ln.strip("|").split("|")]
LineCells(ln) == MapStrip(SplitOn(StripChars(ln, {PIPE}), PIPE))

\* (mutant) the header taken from the separator line
HeaderCellsFromSeparator(lines) == LineCells(lines[2])

\* hdr
HeaderCells(lines) == LineCells(lines[1])

\* (mutant) rows of empty cells are kept
KeepRowAlways(cells) == cells # <<>>

\* if cells and any(cells): rows.append(cells)
KeepRow(cells) == cells # <<>> /\ AnyCell(cells)

\* rows, from lines[2:]
RECURSIVE DataRowsFrom(_, _)
DataRowsFrom(lines, i) ==
    IF i > Len(lines) THEN <<>>
    ELSE LET cells == LineCells(lines[i])
         IN  (IF KeepRow(cells) THEN <<cells>> ELSE <<>>) \o DataRowsFrom(lines, i + 1)

DataRows(lines) == DataRowsFrom(lines, 3)

\* if len(lines) < 2: continue
TooShort(lines) == Len(lines) < 2

\* the defaults of tbl.get("page_number", 1) and tbl.get("bbox", [0, 0, 0, 0])
DefaultPageNumber == 1
DefaultBbox == <<0, 0, 0, 0>>

\* (mutant) metadata that ignores what the raw table supplies
MetadataDefaultsOnly(tbl) == [page_number |-> DefaultPageNumber, bbox |-> DefaultBbox]

\* Metadata(page_number=tbl.get("page_number", 1), bbox=tbl.get("bbox", [0, 0, 0, 0])).
\* In a raw table page_number 0 and bbox <<>> stand for an absent key.
MetadataOf(tbl) ==
    [page_number |-> IF tbl.page_number = 0 THEN DefaultPageNumber ELSE tbl.page_number,
     bbox |-> IF tbl.bbox = <<>> THEN DefaultBbox ELSE tbl.bbox]

\* one raw table: kept (with its TableElement) or skipped
ParseTableOpenAI(tbl) ==
    LET lines == NonBlankLines(tbl.markdown)
    IN  IF TooShort(lines) THEN [kept |-> FALSE]
        ELSE LET hdr  == HeaderCells(lines)
                 rows == DataRows(lines)
             IN  IF DataFrameOk(rows, hdr)
                 THEN [kept |-> TRUE,
                       elem |-> [markdown |-> tbl.markdown, columns |-> hdr, rows |-> rows,
                                metadata |-> MetadataOf(tbl)]]
                 ELSE [kept |-> FALSE]

(***************************************************************************)
(* The markdown table parse of the Anthropic adapter.                      *)
(***************************************************************************)
\* [x.strip() for x in lines[0].split('|') if x]
AnthropicHeaders(lines) ==
    LET NonEmpty(x) == x # <<>>
    IN  MapStrip(SelectSeq(SplitOn(lines[1], PIPE), NonEmpty))

\* [x.strip() for x in line.split('|')[1:-1]]
AnthropicRowCells(line) ==
    LET parts == SplitOn(line, PIPE)
    IN  MapStrip(SubSeq(parts, 2, Len(parts) - 1))

RECURSIVE AnthropicRowsFrom(_, _)
AnthropicRowsFrom(lines, i) ==
    IF i > Len(lines) THEN <<>>
    ELSE LET row == AnthropicRowCells(lines[i])
         IN  (IF row # <<>> THEN <<row>> ELSE <<>>) \o AnthropicRowsFrom(lines, i + 1)

ParseTableAnthropic(tbl) ==
    LET lines   == SplitOn(tbl.markdown, NL)
        headers == AnthropicHeaders(lines)
        rows    == AnthropicRowsFrom(lines, 3)
    IN  IF DataFrameOk(rows, headers)
        THEN [kept |-> TRUE,
              elem |-> [markdown |-> tbl.markdown, columns |-> headers, rows |-> rows,
                                metadata |-> MetadataOf(tbl)]]
        ELSE [kept |-> FALSE]

(***************************************************************************)
(* _extract_tables: the loop over parsed["tables"]; a skipped table does   *)
(* not end the loop.                                                       *)
(***************************************************************************)
ParseTable(a, tbl) ==
    IF a = "anthropic" THEN ParseTableAnthropic(tbl) ELSE ParseTableOpenAI(tbl)

RECURSIVE CollectTables(_, _, _)
CollectTables(a, raw, i) ==
    IF i > Len(raw) THEN <<>>
    ELSE LET r == ParseTable(a, raw[i])
         IN  (IF r.kept THEN <<r.elem>> ELSE <<>>) \o CollectTables(a, raw, i + 1)

ExtractTablesFileSearch(parsed) == CollectTables("openai_file_search", parsed.tables, 1)

ExtractTablesVision(parsed) == CollectTables("openai_vision", parsed.tables, 1)

ExtractTablesAnthropic(parsed) == CollectTables("anthropic", parsed.tables, 1)

TableAdapters == {"anthropic", "openai_vision", "openai_file_search"}

ExtractTables(a, parsed) ==
    CASE a = "anthropic"          -> ExtractTablesAnthropic(parsed)
      [] a = "openai_vision"      -> ExtractTablesVision(parsed)
      [] a = "openai_file_search" -> ExtractTablesFileSearch(parsed)

(***************************************************************************)
(* The parse entry point of the six adapters.                              *)
(*                                                                         *)
(* A document is a path id 1..n.  The raw result of a document that the    *)
(* backend extracts carries one text, one table and, where the backend     *)
(* has images, one image, each tagged with the document; src records the   *)
(* path a result was produced from.                                        *)
(***************************************************************************)
Adapters ==
    {"anthropic", "docling", "llama", "pymupdf", "openai_vision", "openai_file_search"}

\* adapters whose __export_result sets images = []
LLMAdapters == {"anthropic", "openai_vision", "openai_file_search"}

\* valid_modalities / valid
ValidModalities == {"text", "tables", "images"}

\* the names a caller may pass
ModalityNames == ValidModalities \cup {"audio", "video"}

\* the default of the modalities parameter
DefaultModalities == <<"text", "tables", "images">>

InSeq(x, seq) == \E i \in 1..Len(seq) : seq[i] = x

\* (mutant) validation that accepts any name
ValidateNothing(modalities) == [ok |-> TRUE, named |-> <<>>]

\* _validate_modalities of anthropic, docling, llama and pymupdf: a loop
\* that raises at the first name that is not valid, naming that one
ValidateModalitiesLoop(modalities) ==
    LET bad == {i \in 1..Len(modalities) : modalities[i] \notin ValidModalities}
    IN  IF bad = {} THEN [ok |-> TRUE, named |-> <<>>]
        ELSE [ok |-> FALSE, named |-> <<modalities[SeqMin(bad)]>>]

\* _validate_modalities of the OpenAI adapters: the list of all invalid
\* names, raised when it is not empty
ValidateModalitiesList(modalities) ==
    LET IsInvalid(m) == m \notin ValidModalities
        invalid == SelectSeq(modalities, IsInvalid)
    IN  IF invalid # <<>> THEN [ok |-> FALSE, named |-> invalid]
        ELSE [ok |-> TRUE, named |-> <<>>]

ValidateModalities(a, modalities) ==
    IF a \in {"openai_vision", "openai_file_search"}
    THEN ValidateModalitiesList(modalities)
    ELSE ValidateModalitiesLoop(modalities)

\* (mutant) no wrapping of a single path: the string is iterated, and each
\* of its characters (two here) is handed on as if it were a path
PathsUnwrapped(arg) == IF arg.single THEN <<arg.path, arg.path>> ELSE arg.list

\* if isinstance(paths, str): paths = [paths]
NormalizePaths(arg) == IF arg.single THEN <<arg.path>> ELSE arg.list

\* what a failed document is turned into: {"text_content": "", "tables": []}
EmptyResult(p) == [src |-> p, text |-> <<>>, tables |-> <<>>, images |-> <<>>]

\* the raw result of a document the backend extracted
FullResult(p) == [src |-> p, text |-> <<p>>, tables |-> <<p>>, images |-> <<p>>]

\* load_documents, one document.  kind "yield": the generator yields raw;
\* kind "raise": the exception leaves the generator.
\* anthropic: try ... except Exception: yield the empty result; the result
\* it builds has "tables": []
LoadAnthropic(p, fails) ==
    IF fails THEN [kind |-> "yield", raw |-> EmptyResult(p)]
    ELSE [kind |-> "yield", raw |-> [FullResult(p) EXCEPT !.tables = <<>>, !.images = <<>>]]

\* openai vision: try ... except Exception: yield the empty result
LoadVision(p, fails) ==
    IF fails THEN [kind |-> "yield", raw |-> EmptyResult(p)]
    ELSE [kind |-> "yield", raw |-> [FullResult(p) EXCEPT !.images = <<>>]]

\* openai file-search: try ... except Exception: yield the empty result.
\* The result is the arguments object the model sent, which may carry keys
\* beside text_content and tables, an "images" key among them
LoadFileSearch(p, fails) ==
    IF fails THEN [kind |-> "yield", raw |-> EmptyResult(p)]
    ELSE [kind |-> "yield", raw |-> FullResult(p)]

\* pymupdf: with fitz.open(path), no handler around it
LoadPyMuPDF(p, fails) ==
    IF fails THEN [kind |-> "raise", error |-> "BackendError"]
    ELSE [kind |-> "yield", raw |-> FullResult(p)]

\* docling: yield from converter.convert_all(...); with raises_on_error the
\* engine raises, without it the result has a status other than SUCCESS
LoadDocling(p, fails, raises_on_error) ==
    IF fails /\ raises_on_error THEN [kind |-> "raise", error |-> "BackendError"]
    ELSE [kind |-> "yield", raw |-> [FullResult(p) EXCEPT !.text = IF fails THEN <<>> ELSE @,
                                                          !.tables = IF fails THEN <<>> ELSE @,
                                                          !.images = IF fails THEN <<>> ELSE @],
          success |-> ~fails]

\* llama: document = converter.get_json_result(paths), one engine call for
\* the whole list, no handler around it
LoadLlama(paths, failing) ==
    IF failing # {} THEN [kind |-> "raise", error |-> "BackendError"]
    ELSE [kind |-> "yield", raws |-> [i \in 1..Len(paths) |-> FullResult(paths[i])]]

\* (mutant) every yielded result is taken as converted
ConversionAlwaysSucceeded(r) == TRUE

\* docling parse: if result.status == ConversionStatus.SUCCESS
ConversionSucceeded(r) == r.success

LoadDocument(a, p, fails, raises_on_error) ==
    CASE a = "anthropic"          -> LoadAnthropic(p, fails)
      [] a = "openai_vision"      -> LoadVision(p, fails)
      [] a = "openai_file_search" -> LoadFileSearch(p, fails)
      [] a = "pymupdf"            -> LoadPyMuPDF(p, fails)
      [] a = "docling"            -> LoadDocling(p, fails, raises_on_error)

\* (mutant) an export that copies the raw result whatever was requested
ExportEverything(a, raw, modalities) ==
    [src |-> raw.src, text |-> raw.text, tables |-> raw.tables, images |-> raw.images]

\* (mutant) an export that gates images on the request in every adapter
ExportRequested(a, raw, modalities) ==
    [src    |-> raw.src,
     text   |-> IF InSeq("text", modalities) THEN raw.text ELSE <<>>,
     tables |-> IF InSeq("tables", modalities) THEN raw.tables ELSE <<>>,
     images |-> IF InSeq("images", modalities) THEN raw.images ELSE <<>>]

\* __export_result: the ParserOutput of one raw result
ExportResult(a, raw, modalities) ==
    [src    |-> raw.src,
     text   |-> IF InSeq("text", modalities) THEN raw.text ELSE <<>>,
     tables |-> IF InSeq("tables", modalities) THEN raw.tables ELSE <<>>,
     images |-> IF a \in LLMAdapters THEN <<>>
                ELSE IF InSeq("images", modalities) THEN raw.images ELSE <<>>]

\* (mutant) the output put in front of the list
PrependOutput(data, output) == <<output>> \o data

\* data.append(output)
AppendOutput(data, output) == Append(data, output)

(***************************************************************************)
(* State.                                                                  *)
(***************************************************************************)
\* one parse call on an adapter instance
VARIABLES
    adapter,        \* the adapter the call is made on
    pc,             \* "idle", "loading", "returned" or "raised"
    pathsArg,       \* the paths argument as passed: one path or a list
    paths,          \* the list handed to load_documents
    modalities,     \* the requested modalities
    raisesOnError,  \* docling's raises_on_error keyword
    pending,        \* llama: the list get_json_result returned
    pos,            \* number of results consumed from load_documents
    data,           \* the list of ParserOutput being built
    result,         \* the list parse returned
    error,          \* the error parse raised
    errorNames,     \* the modalities named by an invalid-modality error
    backendCalls,   \* number of calls made to the backend engine
    loaded,         \* the documents the backend was called for, in order
    failedDocs      \* the documents whose extraction failed in the backend

parseVars ==
    <<adapter, pc, pathsArg, paths, modalities, raisesOnError, pending, pos, data,
      result, error, errorNames, backendCalls, loaded, failedDocs>>

\* the table extraction: the raw result handed to _extract_tables, the
\* adapter it is called on, and the returned list
VARIABLES tblPc, tblAdapter, tblParsed, tblOut

tblVars == <<tblPc, tblAdapter, tblParsed, tblOut>>

\* the file-search adapter's load_documents
VARIABLES
    fsPc,             \* the place load_documents is at
    fsPaths,          \* its paths argument
    fsIdx,            \* the index of the path being processed
    vectorStoreId,    \* self.vector_store_id
    fsLocalStore,     \* load_documents' vector_store_id
    fsFileIds,        \* load_documents' file_ids
    fsFileId,         \* _upload_file_to_vector_store's file_id
    fsPollCount,      \* turns of the upload's polling loop taken
    fsStores,         \* <<document, id>> of every vector store created
    fsFiles,          \* <<document, id>> of every file uploaded
    fsLiveStores,     \* the vector stores that exist at the provider
    fsLiveFiles,      \* the files that exist at the provider
    fsDeleteRequests, \* the deletions requested: <<"store", id>>, <<"file", id>>
    fsYielded,        \* the results yielded so far
    fsCleanups,       \* per document, how often _cleanup_resources ran for it
    fsClosed,         \* the consumer dropped the generator
    fsCallDocs,       \* the documents backend calls were made for, in call order,
                      \* a run of calls for one document written once
    fsLastStatus      \* the status the latest poll of the current upload observed

fsVars ==
    <<fsPc, fsPaths, fsIdx, vectorStoreId, fsLocalStore, fsFileIds, fsFileId, fsPollCount,
      fsStores, fsFiles, fsLiveStores, fsLiveFiles, fsDeleteRequests, fsYielded, fsCleanups,
      fsClosed, fsCallDocs,
      fsLastStatus>>

\* the vision adapter's _analyze_page
VARIABLES
    pagePc,       \* the place _analyze_page is at
    pageRetries,  \* its retries argument
    pageNumber,   \* its page_number argument
    pageAttempt,  \* attempt, the loop variable
    pageCalls,    \* backend calls made
    pageHistory,  \* per attempt made, its outcome and response
    pageSleeps,   \* the sleeps taken, in tenths of a second
    pageReturn    \* how the call ended

pageVars ==
    <<pagePc, pageRetries, pageNumber, pageAttempt, pageCalls, pageHistory, pageSleeps,
      pageReturn>>

\* the file-search adapter's _analyze_with_assistant_api
VARIABLES
    anPc,                 \* the place the call is at
    anAttempt,            \* attempt, the loop variable
    anThreadId,           \* thread_id
    anThreads,            \* threads created so far
    anLiveThreads,        \* the threads that exist at the provider
    anThreadDeletes,      \* the thread deletions requested, in order
    anElapsed,            \* seconds since start_time
    anFunctionCallCount,  \* function_call_count
    anLastFunctionResult, \* last_function_result
    anCaptured,           \* the arguments decoded last in the current run
    anPolls,              \* status requests made for the current run
    anLatestPollAt,       \* the largest elapsed time at which one was made
    anSubmits,            \* tool-output submissions made in the current run
    anLastSubmitted,      \* the latest of them
    anLastRound,          \* the latest requires_action round of the current run
    anLog,                \* per attempt that ended, how it ended
    anReturn              \* how the call ended

runVars ==
    <<anPc, anAttempt, anThreadId, anThreads, anLiveThreads, anThreadDeletes,
      anElapsed, anFunctionCallCount, anLastFunctionResult, anCaptured, anPolls,
      anLatestPollAt, anSubmits, anLastSubmitted, anLastRound, anLog, anReturn>>

\* one call of the llama adapter's _extract_tables on a page
VARIABLES
    llPc,           \* "idle", "returned" or "raised"
    llPage,         \* the page dict: its items and its page number
    llOut           \* the list of TableElement returned

llVars == <<llPc, llPage, llOut>>

\* one construction: of a dispatcher, or of an adapter that needs a credential
VARIABLES
    ctPc,           \* "idle", "constructed" or "raised"
    ctEnv,          \* the environment variables that are set (and not empty)
    ctCall,         \* what was constructed, and the backend name passed
    ctClasses,      \* the adapter classes whose constructor was called
    ctEvents,       \* API client creations and network calls, in order
    ctError         \* the error raised

ctVars == <<ctPc, ctEnv, ctCall, ctClasses, ctEvents, ctError>>

\* the vision adapter's load_documents, for one path
VARIABLES
    vdPc,           \* "convert", "page", "analyzing" or "yielded"
    vdPages,        \* the number of page images of the document
    vdPage,         \* i, the number of the page being analysed
    vdCombined,     \* combined: the text parts and the tables gathered so far
    vdResults,      \* what _analyze_page returned, per page
    vdExhausted,    \* the pages whose every attempt failed
    vdYield         \* what the generator yielded for the path

vdVars == <<vdPc, vdPages, vdPage, vdCombined, vdResults, vdExhausted, vdYield>>

\* an instance of a lazily initialised parser of src/parstudio
VARIABLES
    lzParser,       \* the class of the instance: "docling" or "llama"
    lzInitialized,  \* self.initialized
    lzEmbedImages,  \* self.embed_images of the docling parser, "None" until set
    lzConverter,    \* what self.converter was built with
    lzEngineInits,  \* the converters built for the instance
    lzEngineCalls,  \* the calls of convert_all / get_json_result
    lzOps,          \* the calls made on the instance
    lzLast          \* the latest call: its arguments, what it found, how it ended

lzVars ==
    <<lzParser, lzInitialized, lzEmbedImages, lzConverter, lzEngineInits, lzEngineCalls,
      lzOps, lzLast>>

vars == <<parseVars, tblVars, fsVars, pageVars, runVars, llVars, ctVars, vdVars, lzVars>>

\* what the steps of one part leave alone
othersOfParse == <<tblVars, fsVars, pageVars, runVars, llVars, ctVars, vdVars, lzVars>>
othersOfTables == <<parseVars, fsVars, pageVars, runVars, llVars, ctVars, vdVars, lzVars>>
othersOfFs == <<parseVars, tblVars, pageVars, runVars, llVars, ctVars, vdVars, lzVars>>
othersOfPage == <<parseVars, tblVars, fsVars, runVars, llVars, ctVars, vdVars, lzVars>>
othersOfRun == <<parseVars, tblVars, fsVars, pageVars, llVars, ctVars, vdVars, lzVars>>
othersOfLlama == <<parseVars, tblVars, fsVars, pageVars, runVars, ctVars, vdVars, lzVars>>
othersOfConstruct == <<parseVars, tblVars, fsVars, pageVars, runVars, llVars, vdVars, lzVars>>
othersOfVisionDoc == <<parseVars, tblVars, fsVars, pageVars, runVars, llVars, ctVars, lzVars>>
\* what the page loop of the vision adapter, which calls _analyze_page, leaves alone
othersOfVisionDocAndPage == <<parseVars, tblVars, fsVars, runVars, llVars, ctVars, lzVars>>
othersOfLazy == <<parseVars, tblVars, fsVars, pageVars, runVars, llVars, ctVars, vdVars>>

(***************************************************************************)
(* The parse call.                                                         *)
(***************************************************************************)
NoArg == [single |-> FALSE, list |-> <<>>]

\* the lists <<1, ..., n>> of distinct documents, and the single path 1
PathArgs ==
    {[single |-> FALSE, list |-> [i \in 1..n |-> i]] : n \in 0..MaxPaths}
    \cup {[single |-> TRUE, path |-> 1]}

ModalityLists ==
    UNION {[1..k -> ModalityNames] : k \in 0..MaxModalities} \cup {DefaultModalities}

ParseIdle ==
    /\ pc = "none"
    /\ adapter = "none"
    /\ pathsArg = NoArg
    /\ paths = <<>>
    /\ modalities = <<>>
    /\ raisesOnError = TRUE
    /\ pending = <<>>
    /\ pos = 0
    /\ data = <<>>
    /\ result = <<>>
    /\ error = "none"
    /\ errorNames = <<>>
    /\ backendCalls = 0
    /\ loaded = <<>>
    /\ failedDocs = {}

InitParse ==
    /\ pc = "idle"
    /\ adapter \in Adapters
    /\ pathsArg = NoArg
    /\ paths = <<>>
    /\ modalities = <<>>
    /\ raisesOnError = TRUE
    /\ pending = <<>>
    /\ pos = 0
    /\ data = <<>>
    /\ result = <<>>
    /\ error = "none"
    /\ errorNames = <<>>
    /\ backendCalls = 0
    /\ loaded = <<>>
    /\ failedDocs = {}

\* parse, up to the loop over load_documents: validation, then the
\* normalisation of paths
Parse(arg, mods, roe) ==
    /\ pc = "idle"
    /\ pathsArg' = arg
    /\ modalities' = mods
    /\ raisesOnError' = roe
    /\ LET v == ValidateModalities(adapter, mods)
       IN  IF v.ok
           THEN /\ pc' = "loading"
                /\ paths' = NormalizePaths(arg)
                /\ UNCHANGED <<error, errorNames>>
           ELSE /\ pc' = "raised"
                /\ error' = "InvalidModality"
                /\ errorNames' = v.named
                /\ UNCHANGED paths
    /\ UNCHANGED <<adapter, pending, pos, data, result, backendCalls, loaded, failedDocs>>
    /\ UNCHANGED othersOfParse

\* one turn of "for result in self.load_documents(paths)" for the adapters
\* whose generator handles one path per turn
LoadNext(fails) ==
    /\ pc = "loading"
    /\ adapter # "llama"
    /\ pos < Len(paths)
    /\ LET p == paths[pos + 1]
           r == LoadDocument(adapter, p, fails, raisesOnError)
       IN  /\ backendCalls' = backendCalls + 1
           /\ loaded' = Append(loaded, p)
           /\ failedDocs' = IF fails THEN failedDocs \cup {p} ELSE failedDocs
           /\ IF r.kind = "raise"
              THEN /\ pc' = "raised"
                   /\ error' = r.error
                   /\ UNCHANGED <<pos, data>>
              ELSE IF adapter = "docling" /\ ~ConversionSucceeded(r)
              THEN \* raise ValueError(f"Failed to parse the document: ...")
                   /\ pc' = "raised"
                   /\ error' = "ConversionFailed"
                   /\ UNCHANGED <<pos, data>>
              ELSE /\ data' = AppendOutput(data, ExportResult(adapter, r.raw, modalities))
                   /\ pos' = pos + 1
                   /\ UNCHANGED <<pc, error>>
    /\ UNCHANGED <<adapter, pathsArg, paths, modalities, raisesOnError, pending, result,
                   errorNames>>
    /\ UNCHANGED othersOfParse

\* llama: the first turn of the loop runs get_json_result on the whole list
LlamaGetJson(failing) ==
    /\ pc = "loading"
    /\ adapter = "llama"
    /\ backendCalls = 0
    /\ LET r == LoadLlama(paths, failing)
       IN  /\ backendCalls' = backendCalls + 1
           /\ loaded' = paths
           /\ failedDocs' = failing
           /\ IF r.kind = "raise"
              THEN /\ pc' = "raised"
                   /\ error' = r.error
                   /\ UNCHANGED pending
              ELSE /\ pending' = r.raws
                   /\ UNCHANGED <<pc, error>>
    /\ UNCHANGED <<adapter, pathsArg, paths, modalities, raisesOnError, pos, data, result,
                   errorNames>>
    /\ UNCHANGED othersOfParse

\* llama: "yield from document", one result per turn
LlamaNext ==
    /\ pc = "loading"
    /\ adapter = "llama"
    /\ backendCalls > 0
    /\ pos < Len(pending)
    /\ data' = AppendOutput(data, ExportResult(adapter, pending[pos + 1], modalities))
    /\ pos' = pos + 1
    /\ UNCHANGED <<adapter, pc, pathsArg, paths, modalities, raisesOnError, pending, result,
                   error, errorNames, backendCalls, loaded, failedDocs>>
    /\ UNCHANGED othersOfParse

\* the generator is exhausted: return data
ParseReturn ==
    /\ pc = "loading"
    /\ IF adapter = "llama" THEN backendCalls > 0 /\ pos = Len(pending)
                            ELSE pos = Len(paths)
    /\ pc' = "returned"
    /\ result' = data
    /\ UNCHANGED <<adapter, pathsArg, paths, modalities, raisesOnError, pending, pos, data,
                   error, errorNames, backendCalls, loaded, failedDocs>>
    /\ UNCHANGED othersOfParse

NextParse ==
    \/ \E arg \in PathArgs, mods \in ModalityLists,
          roe \in (IF adapter = "docling" THEN BOOLEAN ELSE {TRUE}) : Parse(arg, mods, roe)
    \/ \E fails \in BOOLEAN : LoadNext(fails)
    \/ \E failing \in SUBSET {paths[i] : i \in 1..Len(paths)} : LlamaGetJson(failing)
    \/ LlamaNext
    \/ ParseReturn

(***************************************************************************)
(* The call of _extract_tables.                                            *)
(***************************************************************************)
\* a well-formed table that accompanies the enumerated one
GoodMarkdown == <<"a", PIPE, "a", NL, PIPE, NL, "a", PIPE, " ">>

\* tables whose data rows do not have the header's number of cells: a row
\* longer than the header, a row shorter than it, and a short row beside a
\* full one
RaggedMarkdowns ==
    {<<"a", NL, PIPE, NL, "a", PIPE, "a">>,
     <<"a", PIPE, "a", NL, PIPE, NL, "a">>,
     <<"a", PIPE, "a", NL, PIPE, NL, "a", PIPE, "a", NL, "a">>}

\* a raw table without page_number and bbox
RawTable(md) == [markdown |-> md, page_number |-> 0, bbox |-> <<>>]

\* a second well-formed table, and raw tables with and without metadata
OtherGoodMarkdown == <<"a", NL, PIPE, NL, "a">>

RawTablesWithMetadata ==
    {[markdown |-> md, page_number |-> n, bbox |-> b] :
        md \in {GoodMarkdown, OtherGoodMarkdown, <<"a">>},
        n \in {0, MaxPages},
        b \in {<<>>, <<1, 2, 3, 4>>}}

\* the raw results enumerated: one table alone, or followed by the good one
ParsedInputs ==
    {[tables |-> <<RawTable(md)>>] : md \in Texts(MaxMdLen) \cup RaggedMarkdowns}
    \cup {[tables |-> <<RawTable(md), RawTable(GoodMarkdown)>>] : md \in Texts(MaxMdLen)}
    \cup {[tables |-> <<t, u>>] : t \in RawTablesWithMetadata, u \in RawTablesWithMetadata}

TblIdle ==
    /\ tblPc = "idle"
    /\ tblAdapter = "none"
    /\ tblParsed = [tables |-> <<>>]
    /\ tblOut = <<>>

InitTables ==
    /\ tblPc = "input"
    /\ tblAdapter = "none"
    /\ tblParsed \in ParsedInputs
    /\ tblOut = <<>>

CallExtractTables(a) ==
    /\ tblPc = "input"
    /\ tblPc' = "extracted"
    /\ tblAdapter' = a
    /\ tblOut' = ExtractTables(a, tblParsed)
    /\ UNCHANGED tblParsed
    /\ UNCHANGED othersOfTables

NextTables == \E a \in TableAdapters : CallExtractTables(a)

(***************************************************************************)
(* The file-search adapter's load_documents, one backend interaction per   *)
(* step.  The provider's vector stores and files are numbered in the       *)
(* order of their creation; id 0 stands for None.                          *)
(***************************************************************************)
\* max_retries of the vector-store file polling
UploadMaxRetries == 10

\* (mutant) the handler's yield is not followed by the finally block
PcAfterHandlerSkipsCleanup == "next"

\* the except clause yields the empty result, then try/finally runs cleanup
PcAfterHandler == "finally"

FsIdle ==
    /\ fsPc = "none"
    /\ fsPaths = <<>>
    /\ fsIdx = 0
    /\ vectorStoreId = 0
    /\ fsLocalStore = 0
    /\ fsFileIds = <<>>
    /\ fsFileId = 0
    /\ fsPollCount = 0
    /\ fsStores = {}
    /\ fsFiles = {}
    /\ fsLiveStores = {}
    /\ fsLiveFiles = {}
    /\ fsDeleteRequests = {}
    /\ fsYielded = <<>>
    /\ fsCleanups = <<>>
    /\ fsClosed = FALSE
    /\ fsCallDocs = <<>>
    /\ fsLastStatus = "none"

\* a parser instance on which load_documents(paths) has just been called
InitFs ==
    /\ fsPc = "next"
    /\ fsPaths \in {[i \in 1..n |-> i] : n \in 1..MaxFsDocs}
    /\ fsIdx = 0
    /\ vectorStoreId = 0
    /\ fsLocalStore = 0
    /\ fsFileIds = <<>>
    /\ fsFileId = 0
    /\ fsPollCount = 0
    /\ fsStores = {}
    /\ fsFiles = {}
    /\ fsLiveStores = {}
    /\ fsLiveFiles = {}
    /\ fsDeleteRequests = {}
    /\ fsYielded = <<>>
    /\ fsCleanups = [i \in 1..Len(fsPaths) |-> 0]
    /\ fsClosed = FALSE
    /\ fsCallDocs = <<>>
    /\ fsLastStatus = "none"

\* the provider objects created while document d was being processed
StoresOf(d) == {s[2] : s \in {x \in fsStores : x[1] = d}}
FilesOf(d) == {f[2] : f \in {x \in fsFiles : x[1] = d}}

\* the record of a step of document fsIdx: made tells whether the step
\* sent a request to the provider
LogCall(made) ==
    IF made /\ (fsCallDocs = <<>> \/ fsCallDocs[Len(fsCallDocs)] # fsIdx)
    THEN Append(fsCallDocs, fsIdx)
    ELSE fsCallDocs

\* for path in paths: file_ids = []; vector_store_id = None
FsNextDocument ==
    /\ fsPc = "next"
    /\ fsIdx < Len(fsPaths)
    /\ fsIdx' = fsIdx + 1
    /\ fsFileIds' = <<>>
    /\ fsLocalStore' = 0
    /\ fsFileId' = 0
    /\ fsPollCount' = 0
    /\ fsPc' = "get_store"
    /\ UNCHANGED fsCallDocs
    /\ fsLastStatus' = "none"
    /\ UNCHANGED <<fsPaths, vectorStoreId, fsStores, fsFiles, fsLiveStores, fsLiveFiles,
                   fsDeleteRequests, fsYielded, fsCleanups, fsClosed>>
    /\ UNCHANGED othersOfFs

\* the loop is over: the generator ends
FsExhausted ==
    /\ fsPc = "next"
    /\ fsIdx = Len(fsPaths)
    /\ fsPc' = "done"
    /\ UNCHANGED fsCallDocs
    /\ UNCHANGED fsLastStatus
    /\ UNCHANGED <<fsPaths, fsIdx, vectorStoreId, fsLocalStore, fsFileIds, fsFileId,
                   fsPollCount, fsStores, fsFiles, fsLiveStores, fsLiveFiles,
                   fsDeleteRequests, fsYielded, fsCleanups, fsClosed>>
    /\ UNCHANGED othersOfFs

\* _get_or_create_vector_store.  outcome: "ok", "create_fails" (the create
\* call raises) or "attach_fails" (the assistant update raises)
FsGetOrCreateVectorStore(outcome) ==
    /\ fsPc = "get_store"
    /\ IF vectorStoreId # 0
       THEN \* if self.vector_store_id: return self.vector_store_id
            /\ outcome = "ok"
            /\ fsLocalStore' = vectorStoreId
            /\ fsPc' = "create_file"
            /\ UNCHANGED <<vectorStoreId, fsStores, fsLiveStores>>
       ELSE IF outcome = "create_fails"
       THEN /\ fsPc' = "except"
            /\ UNCHANGED <<vectorStoreId, fsLocalStore, fsStores, fsLiveStores>>
       ELSE LET s == Cardinality(fsStores) + 1
            IN  /\ fsStores' = fsStores \cup {<<fsIdx, s>>}
                /\ fsLiveStores' = fsLiveStores \cup {s}
                /\ vectorStoreId' = s
                /\ IF outcome = "attach_fails"
                   THEN fsPc' = "except" /\ UNCHANGED fsLocalStore
                   ELSE fsPc' = "create_file" /\ fsLocalStore' = s
    /\ fsCallDocs' = LogCall(vectorStoreId = 0)
    /\ UNCHANGED fsLastStatus
    /\ UNCHANGED <<fsPaths, fsIdx, fsFileIds, fsFileId, fsPollCount, fsFiles, fsLiveFiles,
                   fsDeleteRequests, fsYielded, fsCleanups, fsClosed>>
    /\ UNCHANGED othersOfFs

\* _upload_file_to_vector_store: open(file_path) and client.files.create.
\* outcome: "ok", "open_fails" or "create_fails"
FsCreateFile(outcome) ==
    /\ fsPc = "create_file"
    /\ IF outcome = "ok"
       THEN LET f == Cardinality(fsFiles) + 1
            IN  /\ fsFiles' = fsFiles \cup {<<fsIdx, f>>}
                /\ fsLiveFiles' = fsLiveFiles \cup {f}
                /\ fsFileId' = f
                /\ fsPc' = "attach_file"
       ELSE /\ fsPc' = "except"
            /\ UNCHANGED <<fsFiles, fsLiveFiles, fsFileId>>
    /\ fsCallDocs' = LogCall(outcome # "open_fails")
    /\ UNCHANGED fsLastStatus
    /\ UNCHANGED <<fsPaths, fsIdx, vectorStoreId, fsLocalStore, fsFileIds, fsPollCount,
                   fsStores, fsLiveStores, fsDeleteRequests, fsYielded, fsCleanups, fsClosed>>
    /\ UNCHANGED othersOfFs

\* client.vector_stores.files.create(vector_store_id, file_id); the
\* provider rejects a vector store that no longer exists
FsAttachFile(ok) ==
    /\ fsPc = "attach_file"
    /\ ok => fsLocalStore \in fsLiveStores
    /\ fsPc' = IF ok THEN "poll_file" ELSE "except"
    /\ fsCallDocs' = LogCall(TRUE)
    /\ UNCHANGED fsLastStatus
    /\ UNCHANGED <<fsPaths, fsIdx, vectorStoreId, fsLocalStore, fsFileIds, fsFileId,
                   fsPollCount, fsStores, fsFiles, fsLiveStores, fsLiveFiles,
                   fsDeleteRequests, fsYielded, fsCleanups, fsClosed>>
    /\ UNCHANGED othersOfFs

\* one turn of "for _ in range(max_retries)": retrieve the file's status.
\* status: "in_progress", "completed", "failed", or "error" (retrieve raises)
FsPollFile(status) ==
    /\ fsPc = "poll_file"
    /\ fsPollCount < UploadMaxRetries
    /\ fsPollCount' = fsPollCount + 1
    /\ IF status = "completed"
       THEN \* break; return file_id; file_ids.append(file_id)
            /\ fsFileIds' = Append(fsFileIds, fsFileId)
            /\ fsPc' = "analyze"
       ELSE IF status \in {"failed", "error"}
       THEN fsPc' = "except" /\ UNCHANGED fsFileIds
       ELSE UNCHANGED <<fsPc, fsFileIds>>
    /\ fsCallDocs' = LogCall(TRUE)
    /\ fsLastStatus' = status
    /\ UNCHANGED <<fsPaths, fsIdx, vectorStoreId, fsLocalStore, fsFileId, fsStores, fsFiles,
                   fsLiveStores, fsLiveFiles, fsDeleteRequests, fsYielded, fsCleanups,
                   fsClosed>>
    /\ UNCHANGED othersOfFs

\* the polling loop ran max_retries times without a break: return file_id
FsPollExhausted ==
    /\ fsPc = "poll_file"
    /\ fsPollCount = UploadMaxRetries
    /\ fsFileIds' = Append(fsFileIds, fsFileId)
    /\ fsPc' = "analyze"
    /\ UNCHANGED fsCallDocs
    /\ UNCHANGED fsLastStatus
    /\ UNCHANGED <<fsPaths, fsIdx, vectorStoreId, fsLocalStore, fsFileId, fsPollCount,
                   fsStores, fsFiles, fsLiveStores, fsLiveFiles, fsDeleteRequests, fsYielded,
                   fsCleanups, fsClosed>>
    /\ UNCHANGED othersOfFs

\* result = self._analyze_with_assistant_api(file_id); yield result.
\* The analysis returns a result or raises (an authentication error).
FsAnalyze(raises) ==
    /\ fsPc = "analyze"
    /\ IF raises
       THEN fsPc' = "except" /\ UNCHANGED fsYielded
       ELSE /\ fsYielded' = Append(fsYielded, [doc |-> fsIdx, kind |-> "result"])
            /\ fsPc' = "finally"
    /\ fsCallDocs' = LogCall(TRUE)
    /\ UNCHANGED fsLastStatus
    /\ UNCHANGED <<fsPaths, fsIdx, vectorStoreId, fsLocalStore, fsFileIds, fsFileId,
                   fsPollCount, fsStores, fsFiles, fsLiveStores, fsLiveFiles,
                   fsDeleteRequests, fsCleanups, fsClosed>>
    /\ UNCHANGED othersOfFs

\* except Exception: yield {"text_content": "", "tables": []}
FsHandleError ==
    /\ fsPc = "except"
    /\ fsYielded' = Append(fsYielded, [doc |-> fsIdx, kind |-> "empty"])
    /\ fsPc' = PcAfterHandler
    /\ UNCHANGED fsCallDocs
    /\ UNCHANGED fsLastStatus
    /\ UNCHANGED <<fsPaths, fsIdx, vectorStoreId, fsLocalStore, fsFileIds, fsFileId,
                   fsPollCount, fsStores, fsFiles, fsLiveStores, fsLiveFiles,
                   fsDeleteRequests, fsCleanups, fsClosed>>
    /\ UNCHANGED othersOfFs

\* the requests _cleanup_resources(file_ids, vector_store_id) makes
CleanupRequests(file_ids, vector_store_id) ==
    (IF vector_store_id # 0 THEN {<<"store", vector_store_id>>} ELSE {})
    \cup {<<"file", file_ids[i]>> : i \in 1..Len(file_ids)}

\* the order of the deletions in _cleanup_resources: the vector store, then
\* the files in the order of file_ids
CleanupOrder(file_ids, vector_store_id) ==
    (IF vector_store_id # 0 THEN <<<<"store", vector_store_id>>>> ELSE <<>>)
    \o [i \in 1..Len(file_ids) |-> <<"file", file_ids[i]>>]

\* (mutant) a cleanup that stops at the first deletion that raises
AttemptedUntilFailure(order, failing) ==
    {order[i] : i \in {k \in 1..Len(order) : \A j \in 1..(k - 1) : order[j] \notin failing}}

\* each deletion has its own try/except: one that raises is logged and the
\* next one is attempted
AttemptedDeletions(order, failing) == {order[i] : i \in 1..Len(order)}

\* finally: self._cleanup_resources(file_ids, vector_store_id).  It runs
\* when the consumer asks for the next result, or (close) when the consumer
\* drops the generator while it is suspended at the yield.  failing: the
\* deletions that raise, which are only logged.
FsCleanup(failing, close) ==
    /\ fsPc = "finally"
    /\ LET reqs == CleanupRequests(fsFileIds, fsLocalStore)
           sent == AttemptedDeletions(CleanupOrder(fsFileIds, fsLocalStore), failing)
       IN  /\ failing \subseteq reqs
           /\ fsDeleteRequests' = fsDeleteRequests \cup sent
           /\ fsLiveStores' = fsLiveStores \ {r[2] : r \in {x \in sent \ failing : x[1] = "store"}}
           /\ fsLiveFiles' = fsLiveFiles \ {r[2] : r \in {x \in sent \ failing : x[1] = "file"}}
    /\ fsCleanups' = [fsCleanups EXCEPT ![fsIdx] = @ + 1]
    /\ fsClosed' = close
    /\ fsPc' = IF close THEN "done" ELSE "next"
    /\ fsCallDocs' = LogCall(CleanupRequests(fsFileIds, fsLocalStore) # {})
    /\ UNCHANGED fsLastStatus
    /\ UNCHANGED <<fsPaths, fsIdx, vectorStoreId, fsLocalStore, fsFileIds, fsFileId,
                   fsPollCount, fsStores, fsFiles, fsYielded>>
    /\ UNCHANGED othersOfFs

NextFs ==
    \/ FsNextDocument
    \/ FsExhausted
    \/ \E outcome \in {"ok", "create_fails", "attach_fails"} : FsGetOrCreateVectorStore(outcome)
    \/ \E outcome \in {"ok", "open_fails", "create_fails"} : FsCreateFile(outcome)
    \/ \E ok \in BOOLEAN : FsAttachFile(ok)
    \/ \E status \in {"in_progress", "completed", "failed", "error"} : FsPollFile(status)
    \/ FsPollExhausted
    \/ \E raises \in BOOLEAN : FsAnalyze(raises)
    \/ FsHandleError
    \/ \E failing \in SUBSET CleanupRequests(fsFileIds, fsLocalStore), close \in BOOLEAN :
          FsCleanup(failing, close)

(***************************************************************************)
(* The vision adapter's _analyze_page: one call, one backend call per      *)
(* step.  A response is the dict the model's JSON content decodes to; a    *)
(* table's page_number 0 stands for an absent key.                         *)
(***************************************************************************)
\* the default of _analyze_page's retries parameter
PageRetries == 3

\* the default of _analyze_page's backoff parameter, in tenths of a second
PageBackoff == 15

\* the fallback structure: {"text_content": "", "tables": []}
EmptyPage == [text_content |-> "", tables |-> <<>>]

\* the dicts a successful call's content decodes to
PageResponses ==
    {[text_content |-> "t", tables |-> <<>>],
     [text_content |-> "t", tables |-> <<[markdown |-> "m", page_number |-> 0]>>],
     [text_content |-> "t", tables |-> <<[markdown |-> "m", page_number |-> 1],
                                         [markdown |-> "n", page_number |-> 0]>>]}

\* for t in data.get("tables", []): t.setdefault("page_number", page_number)
EnrichPage(resp, page_number) ==
    [resp EXCEPT !.tables =
        [i \in 1..Len(resp.tables) |->
            IF resp.tables[i].page_number = 0
            THEN [resp.tables[i] EXCEPT !.page_number = page_number]
            ELSE resp.tables[i]]]

\* (mutant) a loop that makes one attempt more than retries
AttemptLimitOneMore(retries) == retries + 1

\* for attempt in range(retries)
AttemptLimit(retries) == retries

PageIdle ==
    /\ pagePc = "none"
    /\ pageRetries = 0
    /\ pageNumber = 0
    /\ pageAttempt = 0
    /\ pageCalls = 0
    /\ pageHistory = <<>>
    /\ pageSleeps = <<>>
    /\ pageReturn = [kind |-> "none"]

\* _analyze_page(image, page_number, retries) has just been called
InitPage ==
    /\ pagePc = "encode"
    /\ pageRetries \in 0..MaxRetriesArg
    /\ pageNumber \in 1..MaxPages
    /\ pageAttempt = 0
    /\ pageCalls = 0
    /\ pageHistory = <<>>
    /\ pageSleeps = <<>>
    /\ pageReturn = [kind |-> "none"]

\* image_uri = _b64_image_uri(image), before the loop and outside the try
PageEncode(ok) ==
    /\ pagePc = "encode"
    /\ IF ok
       THEN pagePc' = "loop" /\ UNCHANGED pageReturn
       ELSE pagePc' = "done" /\ pageReturn' = [kind |-> "raise"]
    /\ UNCHANGED <<pageRetries, pageNumber, pageAttempt, pageCalls, pageHistory, pageSleeps>>
    /\ UNCHANGED othersOfPage

\* one turn of the loop.  outcome "ok": the call returns content that
\* decodes to resp; "api_error": the call raises; "bad_content": the call
\* returns and decoding or enriching its content raises.
PageAttempt(outcome, resp) ==
    /\ pagePc = "loop"
    /\ pageAttempt < AttemptLimit(pageRetries)
    /\ pageCalls' = pageCalls + 1
    /\ pageHistory' = Append(pageHistory, [outcome |-> outcome, resp |-> resp])
    /\ IF outcome = "ok"
       THEN /\ pageReturn' = [kind |-> "return", value |-> EnrichPage(resp, pageNumber)]
            /\ pagePc' = "done"
            /\ UNCHANGED <<pageAttempt, pageSleeps>>
       ELSE \* except Exception: time.sleep((attempt + 1) * backoff)
            /\ pageSleeps' = Append(pageSleeps, (pageAttempt + 1) * PageBackoff)
            /\ pageAttempt' = pageAttempt + 1
            /\ UNCHANGED <<pagePc, pageReturn>>
    /\ UNCHANGED <<pageRetries, pageNumber>>
    /\ UNCHANGED othersOfPage

\* the loop is over: return {"text_content": "", "tables": []}
PageFallback ==
    /\ pagePc = "loop"
    /\ pageAttempt >= AttemptLimit(pageRetries)
    /\ pageReturn' = [kind |-> "return", value |-> EmptyPage]
    /\ pagePc' = "done"
    /\ UNCHANGED <<pageRetries, pageNumber, pageAttempt, pageCalls, pageHistory, pageSleeps>>
    /\ UNCHANGED othersOfPage

NextPage ==
    \/ \E ok \in BOOLEAN : PageEncode(ok)
    \/ \E outcome \in {"ok", "api_error", "bad_content"}, resp \in PageResponses :
          PageAttempt(outcome, resp)
    \/ PageFallback

(***************************************************************************)
(* The file-search adapter's _analyze_with_assistant_api: one call, one    *)
(* turn of the polling loop per step.  Time is in seconds; anElapsed is    *)
(* time.time() - start_time, and it advances by CallSeconds in every turn   *)
(* and by the sleep the turn ends with.  Threads are numbered in the order *)
(* of their creation; id 0 stands for None.                                *)
(***************************************************************************)
\* the default of the retries parameter
AnalyzeRetries == 3

\* max_duration
MaxDuration == 180

\* poll_interval
PollInterval == 3

\* last_function_result = None
NoResult == [kind |-> "none"]

\* the arguments "{}" decode to: a dict that is falsy
EmptyArgs == [kind |-> "empty"]

\* the arguments of the extract_pdf_content call idx of round n
Args(n, idx) == [kind |-> "args", round |-> n, idx |-> idx]

\* {"text_content": "", "tables": []}
EmptyAnalysis == [kind |-> "empty_result"]

\* (mutant) any captured arguments count, {} included
TruthyWhenCaptured(r) == r.kind # "none"

\* Python truth of last_function_result
Truthy(r) == r.kind = "args"

\* the tool calls of a requires_action round: an extract_pdf_content call
\* with arguments that decode to a non-empty dict ("extract"), to {}
\* ("extract_empty") or that do not decode ("extract_bad"), or a call of
\* another function ("other")
ToolCallKinds == {"extract", "extract_empty", "extract_bad", "other"}

ToolCallLists == UNION {[1..n -> ToolCallKinds] : n \in 0..MaxToolCalls}

\* json.loads(tool_call.function.arguments) of call idx in round n
DecodedArgs(kind, n, idx) == IF kind = "extract" THEN Args(n, idx) ELSE EmptyArgs

\* no requires_action round yet in the run
NoRound == [count |-> 0, calls |-> <<>>, earlier |-> FALSE]

\* a round has a tool call whose function name is extract_pdf_content
CarriesExtract(tool_calls) ==
    \E i \in 1..Len(tool_calls) : tool_calls[i] \in {"extract", "extract_empty", "extract_bad"}

\* (mutant) arguments returned at once from the first round on
ReturnAtOnceFromFirst(count) == count >= 1

\* if function_call_count >= 2
ReturnAtOnce(count) == count >= 2

\* the for loop over tool_calls, from call i on: count is
\* function_call_count after its increment, last is last_function_result,
\* outputs is tool_outputs
RECURSIVE ProcessToolCalls(_, _, _, _, _)
ProcessToolCalls(tool_calls, i, count, last, outputs) ==
    IF i > Len(tool_calls)
    THEN [returned |-> FALSE, last |-> last, outputs |-> outputs]
    ELSE IF tool_calls[i] \in {"extract", "extract_empty"}
    THEN LET args == DecodedArgs(tool_calls[i], count, i)
         IN  IF ReturnAtOnce(count)
             THEN [returned |-> TRUE, value |-> args, last |-> args, outputs |-> outputs]
             ELSE ProcessToolCalls(tool_calls, i + 1, count, args,
                                   Append(outputs, "processing"))
    ELSE IF tool_calls[i] = "extract_bad"
    THEN ProcessToolCalls(tool_calls, i + 1, count, last, Append(outputs, "error"))
    ELSE ProcessToolCalls(tool_calls, i + 1, count, last, outputs)

\* (mutant) a polling loop without the ceiling
NeverTimedOut(elapsed) == FALSE

\* if elapsed_time > max_duration
TimedOut(elapsed) == elapsed > MaxDuration

\* the errors a backend call raises
ApiErrors == {"auth", "rate_limit", "api"}

RunIdle ==
    /\ anPc = "none"
    /\ anAttempt = 0
    /\ anThreadId = 0
    /\ anThreads = 0
    /\ anLiveThreads = {}
    /\ anThreadDeletes = <<>>
    /\ anElapsed = 0
    /\ anFunctionCallCount = 0
    /\ anLastFunctionResult = NoResult
    /\ anCaptured = NoResult
    /\ anPolls = 0
    /\ anLatestPollAt = 0
    /\ anSubmits = 0
    /\ anLastSubmitted = <<>>
    /\ anLastRound = NoRound
    /\ anLog = <<>>
    /\ anReturn = [kind |-> "none"]

\* _analyze_with_assistant_api(file_id) has just been called
InitRun ==
    /\ anPc = "attempt"
    /\ anAttempt = 0
    /\ anThreadId = 0
    /\ anThreads = 0
    /\ anLiveThreads = {}
    /\ anThreadDeletes = <<>>
    /\ anElapsed = 0
    /\ anFunctionCallCount = 0
    /\ anLastFunctionResult = NoResult
    /\ anCaptured = NoResult
    /\ anPolls = 0
    /\ anLatestPollAt = 0
    /\ anSubmits = 0
    /\ anLastSubmitted = <<>>
    /\ anLastRound = NoRound
    /\ anLog = <<>>
    /\ anReturn = [kind |-> "none"]

\* (mutant) an attempt without the finally block
ThreadKept(delOk) == UNCHANGED <<anThreadDeletes, anLiveThreads>>

\* finally: if thread_id: client.beta.threads.delete(thread_id); a failing
\* deletion is only logged
DeleteThread(delOk) ==
    IF anThreadId # 0
    THEN /\ anThreadDeletes' = Append(anThreadDeletes, anThreadId)
         /\ anLiveThreads' = IF delOk THEN anLiveThreads \ {anThreadId} ELSE anLiveThreads
    ELSE UNCHANGED <<anThreadDeletes, anLiveThreads>>

\* the locals of a run and what is recorded about it are those of a run
\* just started; they are dead once the attempt has raised
FreshRun ==
    /\ anElapsed' = 0
    /\ anFunctionCallCount' = 0
    /\ anLastFunctionResult' = NoResult
    /\ anCaptured' = NoResult
    /\ anPolls' = 0
    /\ anLatestPollAt' = 0
    /\ anSubmits' = 0
    /\ anLastSubmitted' = <<>>
    /\ anLastRound' = NoRound

\* the status request of a turn is counted
CountPoll ==
    /\ anPolls' = anPolls + 1
    /\ anLatestPollAt' = IF anElapsed > anLatestPollAt THEN anElapsed ELSE anLatestPollAt

\* the attempt returns value: the finally block runs, the call is over
ReturnFromAttempt(how, value, captured, delOk) ==
    /\ DeleteThread(delOk)
    /\ anLog' = Append(anLog, [attempt |-> anAttempt, end |-> how, captured |-> captured])
    /\ anReturn' = [kind |-> "return", value |-> value]
    /\ anPc' = "done"
    /\ UNCHANGED anAttempt

\* (mutant) an attempt loop that treats every exception alike
RaiseAlwaysRetried(how, captured, delOk) ==
    /\ DeleteThread(delOk)
    /\ anLog' = Append(anLog, [attempt |-> anAttempt, end |-> how, captured |-> captured])
    /\ FreshRun
    /\ anAttempt' = anAttempt + 1
    /\ anPc' = "attempt"
    /\ UNCHANGED anReturn

\* the attempt raises: an authentication error becomes a ValueError that
\* leaves the call, any other exception is followed by a sleep and the next
\* turn of the attempt loop; the finally block runs in both cases
RaiseInAttempt(how, captured, delOk) ==
    /\ DeleteThread(delOk)
    /\ anLog' = Append(anLog, [attempt |-> anAttempt, end |-> how, captured |-> captured])
    /\ FreshRun
    /\ IF how = "auth"
       THEN /\ anReturn' = [kind |-> "raise", error |-> "ValueError"]
            /\ anPc' = "done"
            /\ UNCHANGED anAttempt
       ELSE /\ anAttempt' = anAttempt + 1
            /\ anPc' = "attempt"
            /\ UNCHANGED anReturn

\* thread_id = None; thread = client.beta.threads.create(...);
\* thread_id = thread.id
RunCreateThread(outcome) ==
    /\ anPc = "attempt"
    /\ anAttempt < AnalyzeRetries
    /\ IF outcome = "ok"
       THEN /\ anThreads' = anThreads + 1
            /\ anThreadId' = anThreads + 1
            /\ anLiveThreads' = anLiveThreads \cup {anThreads + 1}
            /\ anPc' = "create_run"
            /\ UNCHANGED <<anAttempt, anThreadDeletes, anLog, anReturn>>
       ELSE \* thread_id is None in the finally block
            /\ anThreadId' = 0
            /\ anLog' = Append(anLog, [attempt |-> anAttempt, end |-> outcome,
                                       captured |-> NoResult])
            /\ IF outcome = "auth"
               THEN /\ anReturn' = [kind |-> "raise", error |-> "ValueError"]
                    /\ anPc' = "done"
                    /\ UNCHANGED anAttempt
               ELSE /\ anAttempt' = anAttempt + 1
                    /\ anPc' = "attempt"
                    /\ UNCHANGED anReturn
            /\ UNCHANGED <<anThreads, anLiveThreads, anThreadDeletes>>
    /\ UNCHANGED <<anElapsed, anFunctionCallCount, anLastFunctionResult, anCaptured, anPolls,
                   anLatestPollAt, anSubmits, anLastSubmitted, anLastRound>>
    /\ UNCHANGED othersOfRun

\* run = client.beta.threads.runs.create(...); start_time = time.time();
\* function_call_count = 0; last_function_result = None
RunCreateRun(outcome, delOk) ==
    /\ anPc = "create_run"
    /\ IF outcome = "ok"
       THEN /\ FreshRun
            /\ anPc' = "poll"
            /\ UNCHANGED <<anAttempt, anLiveThreads, anThreadDeletes, anLog, anReturn>>
       ELSE RaiseInAttempt(outcome, NoResult, delOk)
    /\ UNCHANGED <<anThreadId, anThreads>>
    /\ UNCHANGED othersOfRun

\* the top of the while loop found elapsed_time > max_duration
RunTimeout(delOk) ==
    /\ anPc = "poll"
    /\ TimedOut(anElapsed)
    /\ IF Truthy(anLastFunctionResult)
       THEN /\ ReturnFromAttempt("timeout", anLastFunctionResult, anCaptured, delOk)
            /\ UNCHANGED <<anElapsed, anFunctionCallCount, anLastFunctionResult, anCaptured,
                           anPolls, anLatestPollAt, anSubmits, anLastSubmitted,
                           anLastRound>>
       ELSE RaiseInAttempt("timeout", anCaptured, delOk)
    /\ UNCHANGED <<anThreadId, anThreads>>
    /\ UNCHANGED othersOfRun

\* a turn whose status is none of those handled (queued, in_progress, ...):
\* time.sleep(poll_interval)
RunPollPending ==
    /\ anPc = "poll"
    /\ ~TimedOut(anElapsed)
    /\ CountPoll
    /\ anElapsed' = anElapsed + CallSeconds + PollInterval
    /\ UNCHANGED <<anPc, anAttempt, anThreadId, anThreads, anLiveThreads, anThreadDeletes,
                   anFunctionCallCount, anLastFunctionResult, anCaptured, anSubmits,
                   anLastSubmitted, anLastRound, anLog, anReturn>>
    /\ UNCHANGED othersOfRun

\* a turn whose status is requires_action with tool calls to answer.
\* submit: the outcome of submit_tool_outputs when it is called
RunPollRequiresAction(tool_calls, submit, delOk) ==
    /\ anPc = "poll"
    /\ ~TimedOut(anElapsed)
    /\ LET count == anFunctionCallCount + 1
           done == ProcessToolCalls(tool_calls, 1, count, anLastFunctionResult, <<>>)
           extracts == {i \in 1..Len(tool_calls) :
                           tool_calls[i] \in {"extract", "extract_empty"}}
           captured == IF done.returned THEN done.value
                       ELSE IF extracts = {} THEN anCaptured
                       ELSE DecodedArgs(tool_calls[SeqMax(extracts)], count, SeqMax(extracts))
           round == [count |-> count, calls |-> tool_calls,
                     earlier |-> anLastRound.earlier \/ CarriesExtract(anLastRound.calls)]
       IN  IF done.returned
           THEN \* return args
                /\ ReturnFromAttempt("function_result", done.value, captured, delOk)
                /\ CountPoll
                /\ anFunctionCallCount' = count
                /\ anLastFunctionResult' = done.last
                /\ anCaptured' = captured
                /\ anLastRound' = round
                /\ UNCHANGED <<anElapsed, anSubmits, anLastSubmitted>>
           ELSE IF done.outputs # <<>> /\ submit # "ok"
           THEN \* submit_tool_outputs(...) raises
                RaiseInAttempt(submit, NoResult, delOk)
           ELSE /\ CountPoll
                /\ anFunctionCallCount' = count
                /\ anLastFunctionResult' = done.last
                /\ anCaptured' = captured
                /\ anLastRound' = round
                /\ IF done.outputs # <<>>
                   THEN \* submit_tool_outputs(...); continue
                        /\ anSubmits' = anSubmits + 1
                        /\ anLastSubmitted' = <<[round |-> count, outputs |-> done.outputs]>>
                        /\ anElapsed' = anElapsed + CallSeconds
                   ELSE \* no tool output: time.sleep(poll_interval)
                        /\ anElapsed' = anElapsed + CallSeconds + PollInterval
                        /\ UNCHANGED <<anSubmits, anLastSubmitted>>
                /\ UNCHANGED <<anPc, anAttempt, anLiveThreads, anThreadDeletes, anLog,
                               anReturn>>
    /\ UNCHANGED <<anThreadId, anThreads>>
    /\ UNCHANGED othersOfRun

\* a turn whose status is completed.  message: what messages.list gives:
\* "json" (content that decodes to a dict), "text" (other content), "none"
\* (no message) or an error it raises
RunPollCompleted(message, delOk) ==
    /\ anPc = "poll"
    /\ ~TimedOut(anElapsed)
    /\ IF ~Truthy(anLastFunctionResult) /\ message \in ApiErrors
       THEN RaiseInAttempt(message, NoResult, delOk)
       ELSE /\ ReturnFromAttempt("completed",
                   IF Truthy(anLastFunctionResult) THEN anLastFunctionResult
                   ELSE IF message = "none" THEN EmptyAnalysis
                   ELSE [kind |-> message],
                   anCaptured, delOk)
            /\ CountPoll
            /\ UNCHANGED <<anElapsed, anFunctionCallCount, anLastFunctionResult, anCaptured,
                           anSubmits, anLastSubmitted, anLastRound>>
    /\ UNCHANGED <<anThreadId, anThreads>>
    /\ UNCHANGED othersOfRun

\* a turn whose status is failed, cancelled or expired
RunPollEnded(delOk) ==
    /\ anPc = "poll"
    /\ ~TimedOut(anElapsed)
    /\ IF Truthy(anLastFunctionResult)
       THEN /\ ReturnFromAttempt("run_failed", anLastFunctionResult, anCaptured, delOk)
            /\ CountPoll
            /\ UNCHANGED <<anElapsed, anFunctionCallCount, anLastFunctionResult, anCaptured,
                           anSubmits, anLastSubmitted, anLastRound>>
       ELSE RaiseInAttempt("run_failed", anCaptured, delOk)
    /\ UNCHANGED <<anThreadId, anThreads>>
    /\ UNCHANGED othersOfRun

\* a turn whose status request raises
RunPollError(err, delOk) ==
    /\ anPc = "poll"
    /\ ~TimedOut(anElapsed)
    /\ RaiseInAttempt(err, NoResult, delOk)
    /\ UNCHANGED <<anThreadId, anThreads>>
    /\ UNCHANGED othersOfRun

\* the attempt loop is over: return {"text_content": "", "tables": []}
RunExhausted ==
    /\ anPc = "attempt"
    /\ anAttempt >= AnalyzeRetries
    /\ anReturn' = [kind |-> "return", value |-> EmptyAnalysis]
    /\ anPc' = "done"
    /\ UNCHANGED <<anAttempt, anThreadId, anThreads, anLiveThreads, anThreadDeletes,
                   anElapsed, anFunctionCallCount, anLastFunctionResult, anCaptured, anPolls,
                   anLatestPollAt, anSubmits, anLastSubmitted, anLastRound, anLog>>
    /\ UNCHANGED othersOfRun

NextRun ==
    \/ \E outcome \in {"ok"} \cup ApiErrors : RunCreateThread(outcome)
    \/ \E outcome \in {"ok"} \cup ApiErrors, delOk \in BOOLEAN : RunCreateRun(outcome, delOk)
    \/ \E delOk \in BOOLEAN : RunTimeout(delOk)
    \/ RunPollPending
    \/ \E tool_calls \in ToolCallLists, submit \in {"ok"} \cup ApiErrors, delOk \in BOOLEAN :
          RunPollRequiresAction(tool_calls, submit, delOk)
    \/ \E message \in {"json", "text", "none"} \cup ApiErrors, delOk \in BOOLEAN :
          RunPollCompleted(message, delOk)
    \/ \E delOk \in BOOLEAN : RunPollEnded(delOk)
    \/ \E err \in ApiErrors, delOk \in BOOLEAN : RunPollError(err, delOk)
    \/ RunExhausted

(***************************************************************************)
(* The llama adapter's _extract_tables.                                    *)
(*                                                                         *)
(* An item of a page is a table or something else; a table item carries    *)
(* its markdown and its CSV, both tagged here with the item's position,    *)
(* and the CSV is one pandas can read or one it cannot.                    *)
(***************************************************************************)
\* table_df = None
NoDataFrame == [of |-> 0]

ItemKinds ==
    {[type |-> "table", readable |-> TRUE], [type |-> "table", readable |-> FALSE],
     [type |-> "heading", readable |-> TRUE]}

\* page["items"]: item i has md and csv of table i
PageItems ==
    UNION {{[i \in 1..n |-> [type |-> k[i].type, md |-> [of |-> i],
                             csv |-> [of |-> i, readable |-> k[i].readable]]] :
              k \in [1..n -> ItemKinds]} : n \in 0..MaxItems}

\* try: pd.read_csv(io.StringIO(item["csv"]), sep=",")
\* except Exception: table_df = None
ReadCsv(csv) == IF csv.readable THEN [of |-> csv.of] ELSE NoDataFrame

\* TableElement(markdown=..., dataframe=..., metadata=...): the schema's
\* dataframe field either admits None or rejects it with a validation error
TableElementNew(md, df, page_number, admitsNone) ==
    IF df = NoDataFrame /\ ~admitsNone
    THEN [ok |-> FALSE]
    ELSE [ok |-> TRUE,
          elem |-> [markdown |-> md, dataframe |-> df, page_number |-> page_number]]

\* for item in page["items"]: if item["type"] == "table": ... tables.append(...)
RECURSIVE LlamaExtractTables(_, _, _, _)
LlamaExtractTables(page, i, tables, admitsNone) ==
    IF i > Len(page.items) THEN [raised |-> FALSE, tables |-> tables]
    ELSE LET item == page.items[i]
         IN  IF item.type = "table"
             THEN LET table_md == item.md
                      table_df == ReadCsv(item.csv)
                      t == TableElementNew(table_md, table_df, page.page, admitsNone)
                  IN  IF t.ok
                      THEN LlamaExtractTables(page, i + 1, Append(tables, t.elem),
                                              admitsNone)
                      ELSE [raised |-> TRUE, tables |-> <<>>]
             ELSE LlamaExtractTables(page, i + 1, tables, admitsNone)

LlIdle ==
    /\ llPc = "none"
    /\ llPage = [items |-> <<>>, page |-> 1]
    /\ llOut = <<>>

InitLlama ==
    /\ llPc = "idle"
    /\ llPage \in {[items |-> it, page |-> n] : it \in PageItems, n \in 1..MaxPages}
    /\ llOut = <<>>

CallLlamaExtractTables(admitsNone) ==
    /\ llPc = "idle"
    /\ LET r == LlamaExtractTables(llPage, 1, <<>>, admitsNone)
       IN  /\ llPc' = IF r.raised THEN "raised" ELSE "returned"
           /\ llOut' = r.tables
    /\ UNCHANGED llPage
    /\ UNCHANGED othersOfLlama

NextLlama == \E admitsNone \in BOOLEAN : CallLlamaExtractTables(admitsNone)

(***************************************************************************)
(* Construction: the dispatcher PDFParser of parsestudio/parse.py and of   *)
(* parstudio/parse.py, and the constructors of the anthropic and the       *)
(* file-search adapter.                                                    *)
(***************************************************************************)
EnvNames == {"ANTHROPIC_API_KEY", "OPENAI_API_KEY", "ASSISTANT_ID_PARSER2"}

NoError == [kind |-> "none", about |-> "none", names |-> {}]

\* PARSER_MAP of parsestudio/parse.py
PARSER_MAP ==
    [docling |-> "DoclingPDFParser", llama |-> "LlamaPDFParser",
     pymupdf |-> "PyMuPDFParser", anthropic |-> "AnthropicPDFParser",
     openai |-> "OpenAIPDFParser"]

\* the names the if/elif chain of parstudio/parse.py knows
LegacyParsers ==
    [docling |-> "DoclingPDFParser", llama |-> "LlamaPDFParser",
     pymupdf |-> "PyMuPDFParser"]

\* the backend names a caller passes
ParserNames == DOMAIN PARSER_MAP \cup {"DOCLING", "tesseract", ""}

\* str.lower on those names
Lower(name) == IF name = "DOCLING" THEN "docling" ELSE name

\* the classes openai_file_search_parser.py defines
FileSearchModuleClasses == {"OpenAIAssistantPDFParser"}

\* from .openai_file_search_parser import OpenAIFileSearchPDFParser
OpenAIParserImport == "OpenAIFileSearchPDFParser"

\* importing parsestudio/parse.py imports parsers/openai_parser.py, whose
\* from-import raises ImportError when the name is not defined there
ParseModuleImports == OpenAIParserImport \in FileSearchModuleClasses

\* PDFParser.__init__ of parsestudio/parse.py
DispatchParser(name) ==
    LET parser_name == Lower(name)
    IN  IF parser_name \notin DOMAIN PARSER_MAP
        THEN [raised |-> TRUE, classes |-> <<>>,
              error |-> [kind |-> "ValueError", about |-> "InvalidParser",
                         names |-> DOMAIN PARSER_MAP]]
        ELSE [raised |-> FALSE, classes |-> <<PARSER_MAP[parser_name]>>,
              error |-> NoError]

\* PDFParser.__init__ of parstudio/parse.py
DispatchParserLegacy(name) ==
    IF name \in DOMAIN LegacyParsers
    THEN [raised |-> FALSE, classes |-> <<LegacyParsers[name]>>, error |-> NoError]
    ELSE [raised |-> TRUE, classes |-> <<>>,
          error |-> [kind |-> "ValueError", about |-> "InvalidParser",
                     names |-> DOMAIN LegacyParsers]]

\* (mutant) a credential check that lets a missing key through
CredentialNotChecked(env, key) == FALSE

\* api_key = os.environ.get(key); if not api_key: raise ValueError(...)
CredentialMissing(env, key) == key \notin env

\* AnthropicPDFParser.__init__
NewAnthropic(env, clientOk) ==
    IF CredentialMissing(env, "ANTHROPIC_API_KEY")
    THEN [raised |-> TRUE, events |-> <<>>,
          error |-> [kind |-> "ValueError", about |-> "MissingCredential",
                     names |-> {"ANTHROPIC_API_KEY"}]]
    ELSE IF ~clientOk
    THEN [raised |-> TRUE, events |-> <<"Anthropic">>,
          error |-> [kind |-> "ConnectionError", about |-> "ClientInit", names |-> {}]]
    ELSE [raised |-> FALSE, events |-> <<"Anthropic">>, error |-> NoError]

\* what assistants.create ends with in _create_assistant
CreateOutcomes == {"ok", "AuthenticationError", "OtherError"}

\* _create_assistant
CreateAssistant(events, outcome) ==
    LET ev == Append(events, "assistants.create")
    IN  CASE outcome = "ok" -> [raised |-> FALSE, events |-> ev, error |-> NoError]
          [] outcome = "AuthenticationError" ->
                [raised |-> TRUE, events |-> ev,
                 error |-> [kind |-> "ValueError", about |-> "InvalidKey", names |-> {}]]
          [] OTHER ->
                [raised |-> TRUE, events |-> ev,
                 error |-> [kind |-> "RuntimeError", about |-> "Assistant", names |-> {}]]

\* _initialize_assistant: create when no assistant id is configured, else
\* retrieve and update, and create when the retrieval fails; an error of the
\* update is logged only
InitializeAssistant(env, events, retrieveOk, outcome) ==
    IF "ASSISTANT_ID_PARSER2" \notin env
    THEN CreateAssistant(events, outcome)
    ELSE IF retrieveOk
    THEN [raised |-> FALSE,
          events |-> events \o <<"assistants.retrieve", "assistants.update">>,
          error |-> NoError]
    ELSE CreateAssistant(Append(events, "assistants.retrieve"), outcome)

\* OpenAIAssistantPDFParser.__init__
NewOpenAIAssistant(env, clientOk, retrieveOk, outcome) ==
    IF CredentialMissing(env, "OPENAI_API_KEY")
    THEN [raised |-> TRUE, events |-> <<>>,
          error |-> [kind |-> "ValueError", about |-> "MissingCredential",
                     names |-> {"OPENAI_API_KEY"}]]
    ELSE IF ~clientOk
    THEN [raised |-> TRUE, events |-> <<"OpenAI">>,
          error |-> [kind |-> "ConnectionError", about |-> "ClientInit", names |-> {}]]
    ELSE InitializeAssistant(env, <<"OpenAI">>, retrieveOk, outcome)

NoCall == [what |-> "none", name |-> ""]

CtIdle ==
    /\ ctPc = "none"
    /\ ctEnv = {}
    /\ ctCall = NoCall
    /\ ctClasses = <<>>
    /\ ctEvents = <<>>
    /\ ctError = NoError

InitConstruct ==
    /\ ctPc = "idle"
    /\ ctEnv \in SUBSET EnvNames
    /\ ctCall = NoCall
    /\ ctClasses = <<>>
    /\ ctEvents = <<>>
    /\ ctError = NoError

\* from parsestudio.parse import PDFParser; PDFParser(parser=name)
NewPDFParser(name) ==
    /\ ctPc = "idle"
    /\ ctCall' = [what |-> "parsestudio.PDFParser", name |-> name]
    /\ IF ~ParseModuleImports
       THEN /\ ctPc' = "raised"
            /\ ctError' = [kind |-> "ImportError", about |-> OpenAIParserImport,
                           names |-> {}]
            /\ UNCHANGED ctClasses
       ELSE LET d == DispatchParser(name)
            IN  /\ ctPc' = IF d.raised THEN "raised" ELSE "constructed"
                /\ ctError' = d.error
                /\ ctClasses' = d.classes
    /\ UNCHANGED <<ctEnv, ctEvents>>
    /\ UNCHANGED othersOfConstruct

\* from parstudio.parse import PDFParser; PDFParser(parser=name)
NewPDFParserLegacy(name) ==
    /\ ctPc = "idle"
    /\ ctCall' = [what |-> "parstudio.PDFParser", name |-> name]
    /\ LET d == DispatchParserLegacy(name)
       IN  /\ ctPc' = IF d.raised THEN "raised" ELSE "constructed"
           /\ ctError' = d.error
           /\ ctClasses' = d.classes
    /\ UNCHANGED <<ctEnv, ctEvents>>
    /\ UNCHANGED othersOfConstruct

\* AnthropicPDFParser()
NewAnthropicPDFParser(clientOk) ==
    /\ ctPc = "idle"
    /\ ctCall' = [what |-> "AnthropicPDFParser", name |-> ""]
    /\ LET r == NewAnthropic(ctEnv, clientOk)
       IN  /\ ctPc' = IF r.raised THEN "raised" ELSE "constructed"
           /\ ctError' = r.error
           /\ ctEvents' = r.events
    /\ ctClasses' = <<"AnthropicPDFParser">>
    /\ UNCHANGED ctEnv
    /\ UNCHANGED othersOfConstruct

\* OpenAIAssistantPDFParser()
NewOpenAIAssistantPDFParser(clientOk, retrieveOk, outcome) ==
    /\ ctPc = "idle"
    /\ ctCall' = [what |-> "OpenAIAssistantPDFParser", name |-> ""]
    /\ LET r == NewOpenAIAssistant(ctEnv, clientOk, retrieveOk, outcome)
       IN  /\ ctPc' = IF r.raised THEN "raised" ELSE "constructed"
           /\ ctError' = r.error
           /\ ctEvents' = r.events
    /\ ctClasses' = <<"OpenAIAssistantPDFParser">>
    /\ UNCHANGED ctEnv
    /\ UNCHANGED othersOfConstruct

NextConstruct ==
    \/ \E name \in ParserNames : NewPDFParser(name)
    \/ \E name \in ParserNames : NewPDFParserLegacy(name)
    \/ \E clientOk \in BOOLEAN : NewAnthropicPDFParser(clientOk)
    \/ \E clientOk \in BOOLEAN, retrieveOk \in BOOLEAN, outcome \in CreateOutcomes :
          NewOpenAIAssistantPDFParser(clientOk, retrieveOk, outcome)

(***************************************************************************)
(* The vision adapter's load_documents for one path: the loop over the     *)
(* page images, each analysed by _analyze_page with its default retries.   *)
(* A text is the sequence of its parts: page headers and page texts.       *)
(***************************************************************************)
\* f"\n--- Page {i} ---\n"
PageHeader(i) == [kind |-> "header", page |-> i, s |-> ""]

\* the parts of a page's text_content: none when it is the empty string
TextParts(text_content) ==
    IF text_content = "" THEN <<>> ELSE <<[kind |-> "text", page |-> 0, s |-> text_content]>>

\* combined = {"text_content": "", "tables": []}
EmptyCombined == [text_content |-> <<>>, tables |-> <<>>]

\* (mutant) the page's header and text assigned, not appended
CombinePageOverwriting(combined, i, page) ==
    [text_content |-> <<PageHeader(i)>> \o TextParts(page.text_content),
     tables |-> combined.tables \o page.tables]

\* combined["text_content"] += f"\n--- Page {i} ---\n{page.get('text_content','')}"
\* combined["tables"].extend(page.get("tables", []))
CombinePage(combined, i, page) ==
    [text_content |-> combined.text_content \o <<PageHeader(i)>>
                        \o TextParts(page.text_content),
     tables |-> combined.tables \o page.tables]

VdIdle ==
    /\ vdPc = "none"
    /\ vdPages = 0
    /\ vdPage = 0
    /\ vdCombined = EmptyCombined
    /\ vdResults = <<>>
    /\ vdExhausted = {}
    /\ vdYield = [kind |-> "none"]

\* load_documents([path]) has been called and the consumer asked for the
\* first result
InitVisionDoc ==
    /\ vdPc = "convert"
    /\ vdPages = 0
    /\ vdPage = 0
    /\ vdCombined = EmptyCombined
    /\ vdResults = <<>>
    /\ vdExhausted = {}
    /\ vdYield = [kind |-> "none"]

\* images = convert_from_path(path); combined = {...}.  A failing
\* conversion is caught by the except clause, which yields the empty result
VdConvert(n, ok) ==
    /\ vdPc = "convert"
    /\ IF ok
       THEN /\ vdPages' = n
            /\ vdPc' = "page"
            /\ UNCHANGED vdYield
       ELSE /\ vdPc' = "yielded"
            /\ vdYield' = [kind |-> "empty", value |-> EmptyCombined]
            /\ UNCHANGED vdPages
    /\ UNCHANGED <<vdPage, vdCombined, vdResults, vdExhausted>>
    /\ UNCHANGED pageVars
    /\ UNCHANGED othersOfVisionDocAndPage

\* for i, img in enumerate(images, start=1):
\*     page = self._analyze_page(img, page_number=i)      (the call)
VdAnalyzePage ==
    /\ vdPc = "page"
    /\ vdPage < vdPages
    /\ vdPage' = vdPage + 1
    /\ vdPc' = "analyzing"
    /\ pagePc' = "encode"
    /\ pageRetries' = PageRetries
    /\ pageNumber' = vdPage + 1
    /\ pageAttempt' = 0
    /\ pageCalls' = 0
    /\ pageHistory' = <<>>
    /\ pageSleeps' = <<>>
    /\ pageReturn' = [kind |-> "none"]
    /\ UNCHANGED <<vdPages, vdCombined, vdResults, vdExhausted, vdYield>>
    /\ UNCHANGED othersOfVisionDocAndPage

\* _analyze_page has ended.  What it returned is added to combined; an
\* exception it raised is caught by the except clause of load_documents,
\* which yields the empty result for the document
VdPageDone ==
    /\ vdPc = "analyzing"
    /\ pagePc = "done"
    /\ IF pageReturn.kind = "raise"
       THEN /\ vdPc' = "yielded"
            /\ vdYield' = [kind |-> "empty", value |-> EmptyCombined]
            /\ UNCHANGED <<vdCombined, vdResults, vdExhausted>>
       ELSE /\ vdCombined' = CombinePage(vdCombined, vdPage, pageReturn.value)
            /\ vdResults' = Append(vdResults, pageReturn.value)
            /\ vdExhausted' =
                  IF \A k \in 1..Len(pageHistory) : pageHistory[k].outcome # "ok"
                  THEN vdExhausted \cup {vdPage} ELSE vdExhausted
            /\ vdPc' = "page"
            /\ UNCHANGED vdYield
    /\ UNCHANGED <<vdPages, vdPage>>
    /\ UNCHANGED pageVars
    /\ UNCHANGED othersOfVisionDocAndPage

\* the loop over the images is over: yield combined
VdYieldCombined ==
    /\ vdPc = "page"
    /\ vdPage = vdPages
    /\ vdPc' = "yielded"
    /\ vdYield' = [kind |-> "combined", value |-> vdCombined]
    /\ UNCHANGED <<vdPages, vdPage, vdCombined, vdResults, vdExhausted>>
    /\ UNCHANGED pageVars
    /\ UNCHANGED othersOfVisionDocAndPage

NextVisionDoc ==
    \/ \E n \in 0..MaxPages, ok \in BOOLEAN : VdConvert(n, ok)
    \/ VdAnalyzePage
    \/ \E ok \in BOOLEAN : PageEncode(ok)
    \/ \E outcome \in {"ok", "api_error", "bad_content"}, resp \in PageResponses :
          PageAttempt(outcome, resp)
    \/ PageFallback
    \/ VdPageDone
    \/ VdYieldCombined

(***************************************************************************)
(* The lazily initialised docling and llama parsers of src/parstudio.      *)
(***************************************************************************)
LazyParsers == {"docling", "llama"}

\* kwargs.get("ocr_options", "easyocr"), with a value the code does not know
OcrOptions == {"easyocr", "tesseract", "paddle"}

\* kwargs.get("tableformer_mode", "ACCURATE"), likewise
TableformerModes == {"ACCURATE", "FAST", "SLOW"}

\* kwargs.get("backend", "docling"), likewise
Backends == {"docling", "pypdfium", "pdfminer"}

\* the keyword arguments of the docling parse_and_export that are checked
\* or kept
DoclingKwargs ==
    [ocr_options : OcrOptions, tableformer_mode : TableformerModes, backend : Backends,
     embed_images : BOOLEAN]

\* a call without keyword arguments of that kind
NoKwargs ==
    [ocr_options |-> "none", tableformer_mode |-> "none", backend |-> "none",
     embed_images |-> FALSE]

\* self.converter does not exist yet
NoConverter ==
    [engine |-> "none", ocr_options |-> "none", tableformer_mode |-> "none",
     backend |-> "none"]

\* DocumentConverter(... PdfFormatOption(pipeline_options, backend))
DocumentConverter(kw) ==
    [engine |-> "DocumentConverter", ocr_options |-> kw.ocr_options,
     tableformer_mode |-> kw.tableformer_mode, backend |-> kw.backend]

\* LlamaParse(api_key=..., **kwargs)
LlamaParse ==
    [engine |-> "LlamaParse", ocr_options |-> "none", tableformer_mode |-> "none",
     backend |-> "none"]

\* (mutant) options that are taken as they come
OptionsNotChecked(kw) == "none"

\* the three if/elif/else chains of the docling parse_and_export, in order:
\* the message of the ValueError, or "none"
OptionsError(kw) ==
    IF kw.ocr_options \notin {"easyocr", "tesseract"}
    THEN "Invalid OCR options specified"
    ELSE IF kw.tableformer_mode \notin {"ACCURATE", "FAST"}
    THEN "Invalid mode specified"
    ELSE IF kw.backend \notin {"docling", "pypdfium"}
    THEN "Invalid backend specified"
    ELSE "none"

\* ConversionStatus of a result of convert_all
ConversionStatuses == {"SUCCESS", "FAILURE"}

\* a path given to the llama load_documents: a PDF file that exists, a
\* path that does not exist, an existing file without the .pdf suffix
PathKinds == {"pdf", "missing", "not_pdf"}

CallRaised(exc, message) == [kind |-> "raise", error |-> exc, message |-> message]

CallReturned(what) == [kind |-> "return", error |-> "none", message |-> what]

\* what is recorded about a call: the state it found and how it ended
CallRecord(op, kw, outcome) ==
    [op |-> op, kwargs |-> kw, initialized |-> lzInitialized, converter |-> lzConverter,
     embed_images |-> lzEmbedImages, engineInits |-> lzEngineInits,
     engineCalls |-> lzEngineCalls, outcome |-> outcome]

LzIdle ==
    /\ lzParser = "none"
    /\ lzInitialized = FALSE
    /\ lzEmbedImages = "None"
    /\ lzConverter = NoConverter
    /\ lzEngineInits = 0
    /\ lzEngineCalls = 0
    /\ lzOps = 0
    /\ lzLast = [op |-> "none"]

\* DoclingPDFParser() / LlamaPDFParser(): __init__ has just run
InitLazy ==
    /\ lzParser \in LazyParsers
    /\ lzInitialized = FALSE
    /\ lzEmbedImages = "None"
    /\ lzConverter = NoConverter
    /\ lzEngineInits = 0
    /\ lzEngineCalls = 0
    /\ lzOps = 0
    /\ lzLast = [op |-> "__init__"]

\* next(parser.load_documents(paths)) of the docling parser
LzDoclingLoadDocuments(status) ==
    /\ lzParser = "docling"
    /\ lzOps < MaxLazyCalls
    /\ lzOps' = lzOps + 1
    /\ IF ~lzInitialized
       THEN /\ lzLast' = CallRecord("load_documents", NoKwargs,
                             CallRaised("ValueError", "The Docling Parser has not been initialized."))
            /\ UNCHANGED lzEngineCalls
       ELSE \* yield from self.converter.convert_all(paths, ...)
            /\ lzEngineCalls' = lzEngineCalls + 1
            /\ lzLast' = CallRecord("load_documents", NoKwargs, CallReturned(status))
    /\ UNCHANGED <<lzParser, lzInitialized, lzEmbedImages, lzConverter, lzEngineInits>>
    /\ UNCHANGED othersOfLazy

\* parse_and_export(path, **kw) of the docling parser; status is that of
\* the conversion result
LzDoclingParseAndExport(kw, status) ==
    /\ lzParser = "docling"
    /\ lzOps < MaxLazyCalls
    /\ lzOps' = lzOps + 1
    /\ LET err == IF lzInitialized THEN "none" ELSE OptionsError(kw)
       IN  IF err # "none"
           THEN \* raise ValueError(...) before self.embed_images is set
                /\ lzLast' = CallRecord("parse_and_export", kw, CallRaised("ValueError", err))
                /\ UNCHANGED <<lzInitialized, lzEmbedImages, lzConverter, lzEngineInits,
                               lzEngineCalls>>
           ELSE /\ IF lzInitialized
                   THEN UNCHANGED <<lzInitialized, lzEmbedImages, lzConverter, lzEngineInits>>
                   ELSE \* self.embed_images = ...; self.__initialize_docling(...)
                        /\ lzEmbedImages' = IF kw.embed_images THEN "True" ELSE "False"
                        /\ lzConverter' = DocumentConverter(kw)
                        /\ lzEngineInits' = lzEngineInits + 1
                        /\ lzInitialized' = TRUE
                \* for result in self.load_documents(paths, **kwargs)
                /\ lzEngineCalls' = lzEngineCalls + 1
                /\ lzLast' = CallRecord("parse_and_export", kw,
                                 IF status = "SUCCESS" THEN CallReturned("data")
                                 ELSE CallRaised("ValueError", "Failed to parse the document"))
    /\ UNCHANGED lzParser
    /\ UNCHANGED othersOfLazy

\* the body of the llama load_documents up to its first yield, on an
\* initialised instance
LlamaLoad(kind) ==
    IF kind = "missing" THEN CallRaised("FileNotFoundError", "does not exist")
    ELSE IF kind = "not_pdf" THEN CallRaised("ValueError", "must be a PDF file")
    ELSE CallReturned("document")

\* next(parser.load_documents(paths)) of the llama parser
LzLlamaLoadDocuments(kind) ==
    /\ lzParser = "llama"
    /\ lzOps < MaxLazyCalls
    /\ lzOps' = lzOps + 1
    /\ IF ~lzInitialized
       THEN /\ lzLast' = CallRecord("load_documents", NoKwargs,
                             CallRaised("ValueError", "The Docling Parser has not been initialized."))
            /\ UNCHANGED lzEngineCalls
       ELSE /\ lzLast' = CallRecord("load_documents", NoKwargs, LlamaLoad(kind))
            \* self.converter.get_json_result(paths), after the path checks
            /\ lzEngineCalls' = IF kind = "pdf" THEN lzEngineCalls + 1 ELSE lzEngineCalls
    /\ UNCHANGED <<lzParser, lzInitialized, lzEmbedImages, lzConverter, lzEngineInits>>
    /\ UNCHANGED othersOfLazy

\* parse_and_export(path, **kwargs) of the llama parser; built: the
\* LlamaParse constructor accepts the options
LzLlamaParseAndExport(built, kind) ==
    /\ lzParser = "llama"
    /\ lzOps < MaxLazyCalls
    /\ lzOps' = lzOps + 1
    /\ IF ~lzInitialized /\ ~built
       THEN \* except Exception: raise ValueError(...)
            /\ lzLast' = CallRecord("parse_and_export", NoKwargs,
                             CallRaised("ValueError", "An error occurred while initializing"))
            /\ UNCHANGED <<lzInitialized, lzConverter, lzEngineInits, lzEngineCalls>>
       ELSE /\ IF lzInitialized
               THEN UNCHANGED <<lzInitialized, lzConverter, lzEngineInits>>
               ELSE /\ lzConverter' = LlamaParse
                    /\ lzEngineInits' = lzEngineInits + 1
                    /\ lzInitialized' = TRUE
            /\ lzEngineCalls' = IF kind = "pdf" THEN lzEngineCalls + 1 ELSE lzEngineCalls
            /\ lzLast' = CallRecord("parse_and_export", NoKwargs,
                             IF kind = "pdf" THEN CallReturned("data") ELSE LlamaLoad(kind))
    /\ UNCHANGED <<lzParser, lzEmbedImages>>
    /\ UNCHANGED othersOfLazy

NextLazy ==
    \/ \E status \in ConversionStatuses : LzDoclingLoadDocuments(status)
    \/ \E kw \in DoclingKwargs, status \in ConversionStatuses : LzDoclingParseAndExport(kw, status)
    \/ \E kind \in PathKinds : LzLlamaLoadDocuments(kind)
    \/ \E built \in BOOLEAN, kind \in PathKinds : LzLlamaParseAndExport(built, kind)

(***************************************************************************)
(* Specifications: one per part, the other parts idle.                     *)
(***************************************************************************)
Init == InitParse /\ TblIdle /\ FsIdle /\ PageIdle /\ RunIdle /\ LlIdle /\ CtIdle /\ VdIdle /\ LzIdle

Spec == Init /\ [][NextParse]_vars

InitTablesSpec == InitTables /\ ParseIdle /\ FsIdle /\ PageIdle /\ RunIdle /\ LlIdle /\ CtIdle /\ VdIdle /\ LzIdle

SpecTables == InitTablesSpec /\ [][NextTables]_vars

InitFsSpec == InitFs /\ ParseIdle /\ TblIdle /\ PageIdle /\ RunIdle /\ LlIdle /\ CtIdle /\ VdIdle /\ LzIdle

SpecFs == InitFsSpec /\ [][NextFs]_vars

InitPageSpec == InitPage /\ ParseIdle /\ TblIdle /\ FsIdle /\ RunIdle /\ LlIdle /\ CtIdle /\ VdIdle /\ LzIdle

SpecPage == InitPageSpec /\ [][NextPage]_vars

InitRunSpec == InitRun /\ ParseIdle /\ TblIdle /\ FsIdle /\ PageIdle /\ LlIdle /\ CtIdle /\ VdIdle /\ LzIdle

SpecRun == InitRunSpec /\ [][NextRun]_vars

InitLlamaSpec == InitLlama /\ ParseIdle /\ TblIdle /\ FsIdle /\ PageIdle /\ RunIdle /\ CtIdle /\ VdIdle /\ LzIdle

SpecLlama == InitLlamaSpec /\ [][NextLlama]_vars

InitConstructSpec == InitConstruct /\ ParseIdle /\ TblIdle /\ FsIdle /\ PageIdle /\ RunIdle /\ LlIdle /\ VdIdle /\ LzIdle

SpecConstruct == InitConstructSpec /\ [][NextConstruct]_vars

InitVisionDocSpec == InitVisionDoc /\ ParseIdle /\ TblIdle /\ FsIdle /\ PageIdle /\ RunIdle /\ LlIdle /\ CtIdle /\ LzIdle

SpecVisionDoc == InitVisionDocSpec /\ [][NextVisionDoc]_vars

InitLazySpec == InitLazy /\ ParseIdle /\ TblIdle /\ FsIdle /\ PageIdle /\ RunIdle /\ LlIdle /\ CtIdle /\ VdIdle

SpecLazy == InitLazySpec /\ [][NextLazy]_vars

(***************************************************************************)
(* Claims about the parse call.                                            *)
(***************************************************************************)
HasInvalidModality == \E i \in 1..Len(modalities) : modalities[i] \notin ValidModalities

\* C1: on every adapter, a parse call whose modalities hold a name outside
\* {text, tables, images} raises the invalid-modality error, and no backend
\* call was made for it: no document was loaded.
C1_InvalidModalityBeforeBackend ==
    (pc # "idle" /\ HasInvalidModality) =>
        /\ pc = "raised"
        /\ error = "InvalidModality"
        /\ backendCalls = 0
        /\ loaded = <<>>

\* C1 witness: a call that asked for a valid and an invalid modality on a
\* list of paths was rejected.
C1_Witness ==
    /\ pc = "raised" /\ error = "InvalidModality"
    /\ InSeq("text", modalities)
    /\ ~pathsArg.single /\ Len(pathsArg.list) >= 1

\* C2: the list parse returns has one ParserOutput per input path, and
\* element i was produced from path i, also when documents failed.
C2_OneOutputPerPathInOrder ==
    pc = "returned" =>
        /\ Len(result) = Len(paths)
        /\ \A i \in 1..Len(paths) : result[i].src = paths[i]

\* C2 witness: a call over three paths returned although the second
\* document failed in the backend.
C2_Witness ==
    /\ pc = "returned"
    /\ Len(paths) = 3
    /\ failedDocs = {paths[2]}

IsEmptyOutput(o) == o.text = <<>> /\ o.tables = <<>> /\ o.images = <<>>

\* C3: on every adapter but docling, when a document of the batch fails in
\* the backend, parse does not raise, the failed document's output is empty
\* and every later document is still loaded.
C3_FailedDocumentYieldsEmptyOutput ==
    (adapter \in Adapters \ {"docling"} /\ failedDocs # {}) =>
        /\ pc # "raised"
        /\ pc = "returned" =>
            /\ loaded = paths
            /\ \A i \in 1..Len(paths) :
                paths[i] \in failedDocs => IsEmptyOutput(result[i])

(***************************************************************************)
(* Claims about the file-search adapter's load_documents.                  *)
(***************************************************************************)
\* the processing of document d has ended
FsEnded(d) == d < fsIdx \/ (d = fsIdx /\ fsPc \in {"next", "done"})

\* C4: in the file-search load_documents the cleanup step has run exactly
\* once for every document whose processing has ended, whatever the exit
\* path (analysis succeeded; vector-store creation, upload or analysis
\* failed), and not at all for a document still being processed.
C4_CleanupExactlyOnce ==
    fsPc # "none" =>
        \A d \in 1..Len(fsPaths) : fsCleanups[d] = IF FsEnded(d) THEN 1 ELSE 0

\* C4 witness: two documents were processed, the first yielded the empty
\* result after a failure, the second an analysis result.
C4_Witness ==
    /\ fsPc = "done" /\ Len(fsPaths) = 2
    /\ Len(fsYielded) = 2
    /\ fsYielded[1].kind = "empty" /\ fsYielded[2].kind = "result"
    /\ fsCleanups = <<1, 1>>

\* C5: when the processing of a document has ended, every file uploaded
\* and every vector store created during it has been requested for
\* deletion.
C5_CreatedResourcesReleased ==
    \A d \in 1..Len(fsPaths) :
        FsEnded(d) =>
            /\ \A f \in FilesOf(d) : <<"file", f>> \in fsDeleteRequests
            /\ \A s \in StoresOf(d) : <<"store", s>> \in fsDeleteRequests

(***************************************************************************)
(* Claims about the vision adapter's per-page analysis.                    *)
(***************************************************************************)
\* the attempts of the call that succeeded
PageSuccesses == {i \in 1..Len(pageHistory) : pageHistory[i].outcome = "ok"}

\* C6: _analyze_page never makes more than `retries` backend calls; once
\* the image is encoded, the call ends by returning: the (page-number
\* enriched) result of the first attempt that succeeded, no call being made
\* after it, or, when every one of the `retries` attempts raised, the empty
\* result {text_content: "", tables: []}; no exception of an attempt
\* reaches the caller.
C6_BoundedRetriesFirstSuccess ==
    /\ pageCalls <= pageRetries
    /\ (pagePc = "done" /\ pageHistory # <<>>) => pageReturn.kind = "return"
    /\ (pagePc = "done" /\ pageReturn.kind = "return") =>
          IF PageSuccesses # {}
          THEN /\ pageCalls = SeqMin(PageSuccesses)
               /\ pageCalls = Len(pageHistory)
               /\ pageReturn.value =
                     EnrichPage(pageHistory[SeqMin(PageSuccesses)].resp, pageNumber)
          ELSE /\ pageCalls = pageRetries
               /\ pageReturn.value = EmptyPage

\* C6 witness: with the default of 3 retries, two attempts raised and the
\* third succeeded, and its result was returned.
C6_Witness ==
    /\ pagePc = "done" /\ pageRetries = PageRetries
    /\ pageCalls = 3
    /\ PageSuccesses = {3}
    /\ pageReturn.kind = "return"
    /\ pageReturn.value # EmptyPage

(***************************************************************************)
(* Claims about the polling of an assistant run.                           *)
(***************************************************************************)
\* the attempts of the call that ended at the ceiling
TimeoutEntries == {i \in 1..Len(anLog) : anLog[i].end = "timeout"}

\* the arguments captured last in the run of a log entry are a non-empty dict
CapturedNonEmpty(entry) == entry.captured.kind = "args"

\* C7 (as stated): once the elapsed time of a run exceeds 180 seconds the
\* polling stops and the call returns the extract_pdf_content arguments
\* captured last.
C7_TimeoutReturnsCaptured ==
    \A i \in TimeoutEntries :
        /\ anPc = "done"
        /\ anReturn.kind = "return"
        /\ anLog[i].captured # NoResult
        /\ anReturn.value = anLog[i].captured

\* C7 (amended): a run is polled only while the time elapsed since its
\* start is at most 180 seconds, hence a bounded number of times.  When the
\* ceiling is passed and the arguments captured last in that run are a
\* non-empty dict, the call returns them at once; otherwise the attempt
\* ends as a failed one: another attempt with a new run follows, at most 3
\* attempts in all, and after the third the call returns the empty result.
C7_TimeoutEndsRun ==
    /\ anLatestPollAt <= MaxDuration
    /\ anPolls <= (MaxDuration \div CallSeconds) + 1
    /\ anAttempt <= AnalyzeRetries
    /\ \A i \in TimeoutEntries :
          IF CapturedNonEmpty(anLog[i])
          THEN /\ i = Len(anLog)
               /\ anPc = "done"
               /\ anReturn = [kind |-> "return", value |-> anLog[i].captured]
          ELSE /\ anAttempt > anLog[i].attempt
               /\ (i = Len(anLog) /\ anPc = "done") =>
                     /\ anLog[i].attempt = AnalyzeRetries - 1
                     /\ anReturn = [kind |-> "return", value |-> EmptyAnalysis]

\* C7 witness: the first run passed the ceiling with nothing captured and
\* was followed by a second attempt, whose run passed the ceiling with
\* captured arguments, which the call returned.
C7_Witness ==
    /\ anPc = "done"
    /\ Len(anLog) = 2
    /\ TimeoutEntries = {1, 2}
    /\ anLog[1].captured = NoResult
    /\ CapturedNonEmpty(anLog[2])
    /\ anReturn.kind = "return"
    /\ anReturn.value = anLog[2].captured

(***************************************************************************)
(* Claims about the markdown table extraction.                             *)
(***************************************************************************)
OpenAIAdapters == {"openai_vision", "openai_file_search"}

Extracted == tblPc = "extracted"

\* the i-th raw table is one of the returned tables
Returned(i) == \E j \in 1..Len(tblOut) : tblOut[j].markdown = tblParsed.tables[i].markdown

\* C8: in the anthropic, vision and file-search adapters a raw table whose
\* markdown has fewer than 2 non-blank lines is not among the returned
\* tables, and the other (well-formed) tables of the document are returned.
C8_ShortTableExcluded ==
    (Extracted /\ tblAdapter \in TableAdapters) =>
        \A i \in 1..Len(tblParsed.tables) :
            /\ Len(NonBlankLines(tblParsed.tables[i].markdown)) < 2 => ~Returned(i)
            /\ tblParsed.tables[i].markdown = GoodMarkdown => Returned(i)

\* the first non-blank line of a markdown text
FirstLine(md) == NonBlankLines(md)[1]

\* one leading and one trailing | removed, no more
StripOnePipe(s) ==
    LET a == IF s # <<>> /\ s[1] = PIPE THEN SubSeq(s, 2, Len(s)) ELSE s
    IN  IF a # <<>> /\ a[Len(a)] = PIPE THEN SubSeq(a, 1, Len(a) - 1) ELSE a

\* every leading and every trailing | removed
RECURSIVE StripAllPipes(_)
StripAllPipes(s) == IF StripOnePipe(s) = s THEN s ELSE StripAllPipes(StripOnePipe(s))

TrimmedCells(s) ==
    LET parts == SplitOn(s, PIPE)
    IN  [i \in 1..Len(parts) |-> StripChars(parts[i], {" ", NL})]

C11_RaggedTableAccepted ==
    (Extracted /\ tblAdapter \in OpenAIAdapters) =>
        \A i \in 1..Len(tblParsed.tables) :
            LET md == tblParsed.tables[i].markdown
            IN  Len(NonBlankLines(md)) >= 2 =>
                    \E j \in 1..Len(tblOut) :
                        /\ tblOut[j].markdown = md
                        /\ tblOut[j].rows = DataRows(NonBlankLines(md))

\* the non-blank lines after the second one that have a non-empty cell
SurvivingLines(md) ==
    LET lines == NonBlankLines(md)
    IN  {i \in 3..Len(lines) : \E k \in 1..Len(LineCells(lines[i])) : LineCells(lines[i])[k] # <<>>}

\* rows lists exactly the lines of S, in increasing order
RowsAreLines(rows, md, S) ==
    /\ Len(rows) = Cardinality(S)
    /\ \A n \in 1..Len(rows) :
        \E i \in S :
            /\ Cardinality({k \in S : k <= i}) = n
            /\ rows[n] = LineCells(NonBlankLines(md)[i])

OutputsBuilt == IF pc = "returned" THEN result ELSE data

\* C13: on every adapter, an exported ParserOutput has content only for the
\* requested modalities: without "tables" its tables are empty, without
\* "images" its images are empty, without "text" its text is the empty
\* TextElement, whatever the raw backend result contained.
C13_OnlyRequestedModalities ==
    \A i \in 1..Len(OutputsBuilt) :
        /\ ~InSeq("text", modalities) => OutputsBuilt[i].text = <<>>
        /\ ~InSeq("tables", modalities) => OutputsBuilt[i].tables = <<>>
        /\ ~InSeq("images", modalities) => OutputsBuilt[i].images = <<>>

\* C13 witness: a text-only call on pymupdf, whose raw results hold text,
\* tables and images, returned the text of a document it extracted.
C13_Witness ==
    /\ pc = "returned"
    /\ adapter = "pymupdf"
    /\ modalities = <<"text">>
    /\ failedDocs = {}
    /\ Len(result) >= 1
    /\ result[1].text # <<>>
    /\ result[1].tables = <<>> /\ result[1].images = <<>>

(***************************************************************************)
(* Claims about modality validation.                                       *)
(***************************************************************************)
\* the requested names outside {text, tables, images}
InvalidNames == {modalities[i] : i \in 1..Len(modalities)} \ ValidModalities

\* the names the raised error carries
NamedInError == {errorNames[i] : i \in 1..Len(errorNames)}

\* C14: on every adapter, the call raises the invalid-modality error exactly
\* when some requested name lies outside {text, tables, images}, and the
\* error names every such name of the request, not only the first.
C14_ErrorNamesEveryInvalidModality ==
    pc # "idle" =>
        /\ (error = "InvalidModality") <=> (InvalidNames # {})
        /\ error = "InvalidModality" => NamedInError = InvalidNames

(***************************************************************************)
(* Claims about the paths argument.                                        *)
(***************************************************************************)
\* what parse gives for the list ps when the documents of failed fail in the
\* backend: the outputs in order, or the error of the first document (for
\* llama: of the one engine call) that raises
RECURSIVE ParseList(_, _, _, _, _, _, _)
ParseList(a, ps, i, mods, failed, roe, out) ==
    IF a = "llama"
    THEN LET r == LoadLlama(ps, failed \cap {ps[k] : k \in 1..Len(ps)})
         IN  IF r.kind = "raise" THEN [raised |-> TRUE, error |-> r.error, data |-> <<>>]
             ELSE [raised |-> FALSE, error |-> "none",
                   data |-> [k \in 1..Len(ps) |-> ExportResult(a, r.raws[k], mods)]]
    ELSE IF i > Len(ps) THEN [raised |-> FALSE, error |-> "none", data |-> out]
    ELSE LET r == LoadDocument(a, ps[i], ps[i] \in failed, roe)
         IN  IF r.kind = "raise" THEN [raised |-> TRUE, error |-> r.error, data |-> <<>>]
             ELSE IF a = "docling" /\ ~ConversionSucceeded(r)
             THEN [raised |-> TRUE, error |-> "ConversionFailed", data |-> <<>>]
             ELSE ParseList(a, ps, i + 1, mods, failed, roe,
                            Append(out, ExportResult(a, r.raw, mods)))

\* C16: a call with the single path p ends as the call with the list [p]
\* ends under the same backend behaviour, and the load step was handed the
\* list [p].
C16_SinglePathIsOneElementList ==
    (pathsArg.single /\ pc \in {"returned", "raised"} /\ error # "InvalidModality") =>
        LET p == pathsArg.path
            l == ParseList(adapter, <<p>>, 1, modalities, failedDocs, raisesOnError, <<>>)
        IN  /\ paths = <<p>>
            /\ loaded = <<p>>
            /\ (pc = "raised") = l.raised
            /\ pc = "raised" => error = l.error
            /\ pc = "returned" => result = l.data

\* C16 witness: a call with a single path returned the output of that
\* document, extracted by the backend.
C16_Witness ==
    /\ pathsArg.single
    /\ pc = "returned"
    /\ Len(result) = 1
    /\ result[1].src = pathsArg.path
    /\ result[1].text # <<>>

(***************************************************************************)
(* Claims about the docling adapter.                                       *)
(***************************************************************************)
\* C17: in the docling adapter, a document whose conversion does not end
\* with status SUCCESS makes parse raise for the whole call: no list is
\* returned, also when earlier documents of the batch had been converted.
C17_DoclingFailureRaisesForWholeCall ==
    (adapter = "docling" /\ failedDocs # {}) =>
        /\ pc = "raised"
        /\ result = <<>>
        /\ ~raisesOnError => error = "ConversionFailed"

\* C17 witness: with raises_on_error off, the second of three documents did
\* not convert after the first had been exported, and the call raised.
C17_Witness ==
    /\ adapter = "docling"
    /\ ~raisesOnError
    /\ Len(paths) = 3
    /\ failedDocs = {paths[2]}
    /\ Len(data) = 1
    /\ pc = "raised"
    /\ error = "ConversionFailed"

(***************************************************************************)
(* Claims about the order of the file-search adapter's backend calls.      *)
(***************************************************************************)
\* C19: the file-search adapter processes the documents strictly one after
\* another: the backend calls of different documents are not interleaved,
\* and while document i is being processed every earlier document has been
\* yielded and cleaned up, so that its store creation, upload, analysis and
\* cleanup calls all precede the first call for document i.
C19_DocumentsProcessedSequentially ==
    /\ \A i \in 1..Len(fsCallDocs), j \in 1..Len(fsCallDocs) :
            i < j => fsCallDocs[i] < fsCallDocs[j]
    /\ \A d \in 1..Len(fsPaths) :
            d < fsIdx => FsEnded(d) /\ fsCleanups[d] = 1

\* C19 witness: backend calls were made for the first and then for the
\* second document, whose upload is being polled after the first
\* document's files and store were deleted.
C19_Witness ==
    /\ fsCallDocs = <<1, 2>>
    /\ fsPc = "poll_file"
    /\ fsIdx = 2
    /\ FilesOf(1) # {}
    /\ fsFileIds = <<>>
    /\ \A f \in FilesOf(1) : <<"file", f>> \in fsDeleteRequests

(***************************************************************************)
(* Claims about the llama adapter's tables.                                *)
(***************************************************************************)
\* the table items of the page whose CSV pandas can read, in page order
ReadableTables(items) ==
    LET IsReadableTable(item) == item.type = "table" /\ item.csv.readable
    IN  SelectSeq(items, IsReadableTable)

\* C12: every TableElement the llama adapter returns carries a dataframe
\* built from the same table as its markdown, and a table whose CSV cannot be
\* read is left out of the returned list: the call returns exactly the
\* tables that could be converted, in page order.
C12_UnconvertibleTableDropped ==
    llPc # "idle" =>
        /\ llPc = "returned"
        /\ Len(llOut) = Len(ReadableTables(llPage.items))
        /\ \A j \in 1..Len(llOut) :
            /\ llOut[j].dataframe # NoDataFrame
            /\ llOut[j].dataframe.of = llOut[j].markdown.of
            /\ llOut[j].markdown = ReadableTables(llPage.items)[j].md

(***************************************************************************)
(* Claims about construction.                                              *)
(***************************************************************************)
DispatcherCalls == {"parsestudio.PDFParser", "parstudio.PDFParser"}

\* the backend names a dispatcher knows
KnownParsers(what) ==
    IF what = "parsestudio.PDFParser" THEN DOMAIN PARSER_MAP ELSE DOMAIN LegacyParsers

\* C15: constructing a dispatcher with a backend name that is not one of its
\* known names raises an error that names the valid set and instantiates no
\* adapter; with a known name exactly one adapter is instantiated, the one
\* of that name, and nothing is raised.
C15_DispatcherSelectsOneAdapter ==
    (ctPc # "idle" /\ ctCall.what \in DispatcherCalls) =>
        IF ctCall.name \in KnownParsers(ctCall.what)
        THEN /\ ctPc = "constructed"
             /\ Len(ctClasses) = 1
             /\ ctClasses[1] = PARSER_MAP[ctCall.name]
        ELSE /\ ctPc = "raised"
             /\ ctError.about = "InvalidParser"
             /\ ctError.names = KnownParsers(ctCall.what)
             /\ ctClasses = <<>>

\* C18: constructing the anthropic or the file-search adapter while its
\* credential is absent raises the configuration error, and neither the API
\* client was created nor any network call made.
C18_MissingCredentialBeforeClient ==
    /\ (ctCall.what = "AnthropicPDFParser" /\ "ANTHROPIC_API_KEY" \notin ctEnv) =>
            /\ ctPc = "raised"
            /\ ctError.about = "MissingCredential"
            /\ ctEvents = <<>>
    /\ (ctCall.what = "OpenAIAssistantPDFParser" /\ "OPENAI_API_KEY" \notin ctEnv) =>
            /\ ctPc = "raised"
            /\ ctError.about = "MissingCredential"
            /\ ctEvents = <<>>

\* C18 witness: the file-search adapter was constructed with an assistant id
\* configured but without the API key, and the construction raised.
C18_Witness ==
    /\ ctCall.what = "OpenAIAssistantPDFParser"
    /\ ctEnv = {"ASSISTANT_ID_PARSER2", "ANTHROPIC_API_KEY"}
    /\ ctPc = "raised"

(***************************************************************************)
(* Claims about the vision adapter's documents.                            *)
(***************************************************************************)
\* the headers and texts of the pages 1..n, in page order
RECURSIVE TextOfPages(_, _)
TextOfPages(results, n) ==
    IF n = 0 THEN <<>>
    ELSE TextOfPages(results, n - 1) \o <<PageHeader(n)>>
            \o TextParts(results[n].text_content)

\* the tables of the pages 1..n, in page order
RECURSIVE TablesOfPages(_, _)
TablesOfPages(results, n) ==
    IF n = 0 THEN <<>> ELSE TablesOfPages(results, n - 1) \o results[n].tables

\* C20: in the vision adapter a page whose every attempt failed contributes
\* the empty text and no tables, and the pages after it are still analysed;
\* the text of the yielded document is the concatenation, in page order, of
\* each page's header followed by the page's text, and its tables are the
\* concatenation of the pages' tables in page order.
C20_PagesCombinedInOrder ==
    /\ \A d \in vdExhausted : vdResults[d] = EmptyPage
    /\ (vdPc = "yielded" /\ vdYield.kind = "combined") =>
          /\ Len(vdResults) = vdPages
          /\ vdYield.value.text_content = TextOfPages(vdResults, vdPages)
          /\ vdYield.value.tables = TablesOfPages(vdResults, vdPages)

\* C20 witness: a document of two pages was yielded whose first page failed
\* on every attempt and whose second page gave a text and two tables.
C20_Witness ==
    /\ vdPc = "yielded" /\ vdYield.kind = "combined"
    /\ vdPages = 2
    /\ vdExhausted = {1}
    /\ vdYield.value.text_content =
          <<PageHeader(1), PageHeader(2), [kind |-> "text", page |-> 0, s |-> "t"]>>
    /\ Len(vdYield.value.tables) = 2

(***************************************************************************)
(* Claims about the file-search cleanup.                                   *)
(***************************************************************************)
\* the cleanup of the document being processed has run
CleanupRan == fsIdx >= 1 /\ fsCleanups[fsIdx] >= 1

\* C21: once _cleanup_resources has run for a document, the deletion of the
\* vector store and of every file id it was given has been requested, also
\* when deletions of that cleanup failed, and the cleanup did not raise:
\* load_documents went on to the next path or ended.
C21_CleanupAttemptsEveryDeletion ==
    CleanupRan =>
        /\ CleanupRequests(fsFileIds, fsLocalStore) \subseteq fsDeleteRequests
        /\ fsPc \in {"next", "done"}

\* C21 witness: in a cleanup the deletion of the vector store failed (the
\* store still exists) and the file given to it was deleted all the same.
C21_Witness ==
    /\ CleanupRan
    /\ fsLocalStore \in fsLiveStores
    /\ <<"store", fsLocalStore>> \in fsDeleteRequests
    /\ fsFileIds # <<>>
    /\ fsFileIds[1] \notin fsLiveFiles

(***************************************************************************)
(* Claims about the metadata of the extracted tables.                      *)
(***************************************************************************)
\* the raw tables that _extract_tables keeps, by their position
KeptIndices ==
    {i \in 1..Len(tblParsed.tables) : ParseTable(tblAdapter, tblParsed.tables[i]).kept}

\* the position of the j-th kept raw table
KeptIndex(j) ==
    CHOOSE i \in KeptIndices : Cardinality({k \in KeptIndices : k <= i}) = j

\* C22: in the anthropic, vision and file-search adapters the returned
\* tables are the kept raw tables in their raw order, and each one's
\* metadata has the page number and the bounding box of its raw table when
\* the raw table has them, otherwise page_number = 1 and bbox = [0,0,0,0].
C22_TableMetadataAndOrder ==
    Extracted =>
        /\ Len(tblOut) = Cardinality(KeptIndices)
        /\ \A j \in 1..Len(tblOut) :
            LET raw == tblParsed.tables[KeptIndex(j)]
            IN  /\ tblOut[j].markdown = raw.markdown
                /\ tblOut[j].metadata.page_number =
                      IF raw.page_number # 0 THEN raw.page_number ELSE 1
                /\ tblOut[j].metadata.bbox =
                      IF raw.bbox # <<>> THEN raw.bbox ELSE <<0, 0, 0, 0>>

\* C22 witness: two tables were returned in their raw order, the first with
\* the page number and box it was given, the second with the defaults.
C22_Witness ==
    /\ Extracted
    /\ Len(tblOut) = 2
    /\ tblOut[1].markdown = OtherGoodMarkdown
    /\ tblOut[1].metadata = [page_number |-> MaxPages, bbox |-> <<1, 2, 3, 4>>]
    /\ tblOut[2].markdown = GoodMarkdown
    /\ tblOut[2].metadata = [page_number |-> 1, bbox |-> <<0, 0, 0, 0>>]
    /\ tblParsed.tables[2].page_number = 0

(***************************************************************************)
(* Claims about the images of the LLM adapters.                            *)
(***************************************************************************)
\* C23: on the anthropic, vision and file-search adapters every output has
\* an empty images sequence, whatever modalities were requested, and a
\* request that names images beside valid names raises no error for it.
C23_LLMAdaptersNeverReturnImages ==
    adapter \in LLMAdapters =>
        /\ \A i \in 1..Len(OutputsBuilt) : OutputsBuilt[i].images = <<>>
        /\ (InSeq("images", modalities) /\ ~HasInvalidModality) => error = "none"

\* C23 witness: a file-search call that asked for images returned the text
\* of a document it extracted, with no image.
C23_Witness ==
    /\ adapter = "openai_file_search"
    /\ pc = "returned"
    /\ InSeq("images", modalities) /\ InSeq("text", modalities)
    /\ Len(result) >= 1
    /\ result[1].text # <<>>
    /\ result[1].images = <<>>

(***************************************************************************)
(* Claims about the vector store of the file-search adapter.               *)
(***************************************************************************)
\* C24: whenever load_documents is about to upload a document's file and
\* attach it to the vector store it obtained for that document, that store
\* exists at the provider: the id of a store that the cleanup of an earlier
\* document deleted is not reused.
C24_UploadTargetsLiveStore ==
    fsPc \in {"create_file", "attach_file"} =>
        /\ fsLocalStore \in fsLiveStores
        /\ <<"store", fsLocalStore>> \notin fsDeleteRequests

(***************************************************************************)
(* Claims about the upload polling of the file-search adapter.             *)
(***************************************************************************)
\* C25: the upload step polls the status of the vector-store file at most
\* 10 times, and a file id is handed to the analysis step only after a poll
\* observed the status completed: a file that did not reach completed
\* within the polls is not treated as ready.
C25_AnalysisOnlyAfterCompleted ==
    /\ fsPollCount <= UploadMaxRetries
    /\ fsPc = "analyze" => fsLastStatus = "completed"

(***************************************************************************)
(* Claims about the tool-call rounds of a run.                             *)
(***************************************************************************)
\* the extract_pdf_content calls of a round whose arguments decode
Decodable(tool_calls) ==
    {i \in 1..Len(tool_calls) : tool_calls[i] \in {"extract", "extract_empty"}}

\* the tool outputs of a first round, one per extract_pdf_content call
FirstRoundOutputs(tool_calls) ==
    LET ex == SelectSeq(tool_calls, LAMBDA k : k # "other")
    IN  [i \in 1..Len(ex) |-> IF ex[i] = "extract_bad" THEN "error" ELSE "processing"]

\* the call returned the arguments of a tool call at once
ReturnedAtOnce ==
    /\ anPc = "done"
    /\ anLog # <<>>
    /\ anLog[Len(anLog)].end = "function_result"

\* the latest round of the run has been answered with a submission
RoundSubmitted ==
    /\ anLastSubmitted # <<>>
    /\ anLastSubmitted[1].round = anLastRound.count

\* the attempts that ended on completion, timeout or run failure
PartialEnds == {i \in 1..Len(anLog) : anLog[i].end \in {"completed", "timeout", "run_failed"}}

\* C26 (as stated): the first requires_action round of a run that carries
\* an extract_pdf_content call is answered with a "processing" tool output
\* and polling goes on; a round from the second on that carries one returns
\* its arguments at once without a submission; whatever arguments were
\* captured last are the result on completion, timeout or run failure.
C26_FirstExtractRoundAnsweredProcessing ==
    /\ (anLastRound.count >= 1 /\ ~anLastRound.earlier /\ CarriesExtract(anLastRound.calls)) =>
          /\ ~ReturnedAtOnce
          /\ RoundSubmitted
          /\ \E i \in 1..Len(anLastSubmitted[1].outputs) :
                anLastSubmitted[1].outputs[i] = "processing"
    /\ (anLastRound.count >= 2 /\ CarriesExtract(anLastRound.calls)) =>
          /\ ReturnedAtOnce
          /\ ~RoundSubmitted
    /\ \A i \in PartialEnds :
          anLog[i].captured # NoResult =>
              /\ i = Len(anLog)
              /\ anReturn = [kind |-> "return", value |-> anLog[i].captured]

\* C26 (amended): every requires_action round of a run is counted, whether
\* or not it carries an extract_pdf_content call.  In the round counted
\* first, each extract_pdf_content call is answered with a tool output,
\* "processing" when its arguments decode and an error output when they do
\* not, the arguments decoded last are captured, the outputs are submitted
\* and polling goes on.  In every round counted later, the arguments of the
\* first extract_pdf_content call that decode are returned at once as the
\* result, with no submission for that round; without such a call the round
\* goes on as the first does.  On completion, timeout or run failure the
\* arguments captured last are the result only when they are a non-empty
\* object.
C26_RoundsCountedThenArgumentsReturned ==
    /\ anLastRound.count = anFunctionCallCount
    /\ (anLastRound.count = 1 /\ CarriesExtract(anLastRound.calls)) =>
          /\ ~ReturnedAtOnce
          /\ anSubmits = 1
          /\ anLastSubmitted = <<[round |-> 1, outputs |-> FirstRoundOutputs(anLastRound.calls)]>>
          /\ anCaptured = IF Decodable(anLastRound.calls) = {} THEN NoResult
                          ELSE LET i == SeqMax(Decodable(anLastRound.calls))
                               IN  DecodedArgs(anLastRound.calls[i], 1, i)
    /\ (anLastRound.count >= 2 /\ Decodable(anLastRound.calls) # {}) =>
          /\ ReturnedAtOnce
          /\ ~RoundSubmitted
          /\ LET i == SeqMin(Decodable(anLastRound.calls))
             IN  anReturn = [kind |-> "return",
                             value |-> DecodedArgs(anLastRound.calls[i], anLastRound.count, i)]
    /\ (anLastRound.count >= 2 /\ Decodable(anLastRound.calls) = {}) =>
          /\ ~ReturnedAtOnce
          /\ CarriesExtract(anLastRound.calls) =>
                /\ RoundSubmitted
                /\ anLastSubmitted[1].outputs = FirstRoundOutputs(anLastRound.calls)
    /\ \A i \in PartialEnds :
          Truthy(anLog[i].captured) =>
              /\ i = Len(anLog)
              /\ anReturn = [kind |-> "return", value |-> anLog[i].captured]
    /\ \A i \in PartialEnds :
          (anLog[i].captured = EmptyArgs /\ i = Len(anLog) /\ anPc = "done") =>
              anReturn.kind = "return" /\ anReturn.value # EmptyArgs

\* C26 witness: a first round with an extract_pdf_content call was answered
\* with "processing", and the second round's call returned its arguments
\* with no further submission.
C26_Witness ==
    /\ ReturnedAtOnce
    /\ anLastRound.count = 2
    /\ anLastRound.earlier
    /\ anLastRound.calls = <<"extract">>
    /\ anSubmits = 1
    /\ anLastSubmitted = <<[round |-> 1, outputs |-> <<"processing">>]>>
    /\ anReturn = [kind |-> "return", value |-> Args(2, 1)]

\* the attempts whose run ended with status failed, cancelled or expired
RunFailedEntries == {i \in 1..Len(anLog) : anLog[i].end = "run_failed"}

\* the threads whose deletion has been requested
DeletedThreads == {anThreadDeletes[k] : k \in 1..Len(anThreadDeletes)}

\* C27 (as stated): when a run ends with status failed, cancelled or
\* expired and extract_pdf_content arguments were captured in it, the call
\* returns them.
C27_RunFailureReturnsCaptured ==
    \A i \in RunFailedEntries :
        anLog[i].captured # NoResult =>
            /\ i = Len(anLog)
            /\ anPc = "done"
            /\ anReturn = [kind |-> "return", value |-> anLog[i].captured]

\* C27 (amended): a run that ends with status failed, cancelled or expired
\* does not make the call raise.  When the arguments captured last in that
\* run are a non-empty object the call returns them; otherwise (nothing
\* captured, or {} captured) the attempt counts as failed and another
\* attempt follows on a thread not used before, at most 3 attempts in all,
\* and after the third the call returns the empty result.  The call raises
\* only on an authentication error.
C27_RunFailureEndsAttempt ==
    /\ anAttempt <= AnalyzeRetries
    /\ anThreads <= AnalyzeRetries
    /\ Len(anLog) <= AnalyzeRetries
    /\ anPc \in {"create_run", "poll"} => anThreadId \notin DeletedThreads
    /\ anReturn.kind = "raise" => anLog[Len(anLog)].end = "auth"
    /\ \A i \in RunFailedEntries :
          IF CapturedNonEmpty(anLog[i])
          THEN /\ i = Len(anLog)
               /\ anPc = "done"
               /\ anReturn = [kind |-> "return", value |-> anLog[i].captured]
          ELSE /\ anAttempt > anLog[i].attempt
               /\ (i = Len(anLog) /\ anPc = "done") =>
                     /\ anLog[i].attempt = AnalyzeRetries - 1
                     /\ anReturn = [kind |-> "return", value |-> EmptyAnalysis]

\* C27 witness: three runs ended failed, cancelled or expired, one of them
\* with {} captured, and the call returned the empty result.
C27_Witness ==
    /\ anPc = "done"
    /\ RunFailedEntries = 1..AnalyzeRetries
    /\ anLog[1].captured = NoResult
    /\ anLog[2].captured = EmptyArgs
    /\ anThreads = AnalyzeRetries
    /\ anReturn = [kind |-> "return", value |-> EmptyAnalysis]

\* the attempts that ended on an error raised by the service
AuthEntries == {i \in 1..Len(anLog) : anLog[i].end = "auth"}

RetriedErrorEntries == {i \in 1..Len(anLog) : anLog[i].end \in {"rate_limit", "api"}}

\* C28: an authentication error raised by the service in an attempt ends
\* the attempt loop there: the call raises, the attempt counter does not
\* advance, and no thread is created after those of the attempts made so
\* far.  A rate-limit error or another API error is followed by the next
\* turn of the attempt loop instead.
C28_AuthenticationErrorNotRetried ==
    /\ \A i \in AuthEntries :
          /\ i = Len(anLog)
          /\ anPc = "done"
          /\ anReturn = [kind |-> "raise", error |-> "ValueError"]
          /\ anAttempt = anLog[i].attempt
          /\ anThreads <= anLog[i].attempt + 1
    /\ \A i \in RetriedErrorEntries :
          /\ anAttempt > anLog[i].attempt
          /\ (i = Len(anLog) /\ anPc = "done") =>
                /\ anLog[i].attempt = AnalyzeRetries - 1
                /\ anReturn = [kind |-> "return", value |-> EmptyAnalysis]
    /\ anReturn.kind = "raise" => AuthEntries # {}

\* C28 witness: a rate-limit error was followed by a second attempt, whose
\* run raised an authentication error that ended the call
C28_Witness ==
    /\ anPc = "done"
    /\ Len(anLog) = 2
    /\ anLog[1].end = "rate_limit"
    /\ anLog[2].end = "auth"
    /\ anThreads = 2
    /\ anReturn.kind = "raise"

(***************************************************************************)
(* Claims about the threads of a call.                                     *)
(***************************************************************************)
\* the threads the call has created
CreatedThreads == 1..anThreads

\* the attempt that created the thread anThreadId has not ended yet
InAttempt == anPc \in {"create_run", "poll"}

\* C29 (as stated): at most one thread of the call exists at any time.
C29_AtMostOneThreadExists == Cardinality(anLiveThreads) <= 1

\* C29 (amended): the deletion of every thread an attempt created is
\* requested, once, before that attempt ends, however it ends; so at most
\* one thread of the call is still to be requested for deletion at any
\* time.  A deletion that fails is only logged: it leaves the thread in
\* existence and changes neither how the attempt ends nor the attempts
\* that follow.
C29_ThreadDeletionRequested ==
    /\ \A t \in CreatedThreads : t \in DeletedThreads \/ (InAttempt /\ t = anThreadId)
    /\ InAttempt => anThreadId \in CreatedThreads \ DeletedThreads
    /\ Cardinality(CreatedThreads \ DeletedThreads) <= 1
    /\ Len(anThreadDeletes) = Cardinality(DeletedThreads)
    /\ anLiveThreads \subseteq CreatedThreads
    /\ anPc = "done" => DeletedThreads = CreatedThreads
    /\ \A i \in 1..Len(anLog) :
          anLog[i].end \in {"function_result", "completed", "timeout", "run_failed"} \cup ApiErrors
    /\ Len(anLog) - anAttempt \in {0, 1}

\* C29 witness: the deletion of the first attempt's thread failed, a second
\* attempt created another thread and returned; both deletions were
\* requested and the first thread still exists.
C29_Witness ==
    /\ anPc = "done"
    /\ anReturn.kind = "return"
    /\ anThreads = 2
    /\ anThreadDeletes = <<1, 2>>
    /\ anLiveThreads = {1}

(***************************************************************************)
(* Claims about the lazily initialised parsers.                            *)
(***************************************************************************)
\* an option value that is none of those the docling parser knows
InvalidOption(kw) ==
    \/ kw.ocr_options = "paddle"
    \/ kw.tableformer_mode = "SLOW"
    \/ kw.backend = "pdfminer"

\* the latest call on the instance was op and found it uninitialised
FoundUninitialized(op) == lzLast.op = op /\ ~lzLast.initialized

RaisedValueError == lzLast.outcome.kind = "raise" /\ lzLast.outcome.error = "ValueError"

\* C30: a new docling or llama parser is uninitialised; load_documents on
\* an uninitialised instance raises ValueError and does not call the
\* engine; parse_and_export builds the engine when it finds the instance
\* uninitialised and never again afterwards; with an invalid OCR engine,
\* table mode or backend, or options the engine's constructor rejects,
\* parse_and_export raises ValueError and the instance stays uninitialised.
C30_LazyInitialisation ==
    /\ lzLast.op = "__init__" =>
          /\ ~lzInitialized
          /\ lzEmbedImages = "None"
          /\ lzConverter = NoConverter
          /\ lzEngineCalls = 0
    /\ lzEngineInits = IF lzInitialized THEN 1 ELSE 0
    /\ FoundUninitialized("load_documents") =>
          /\ RaisedValueError
          /\ lzEngineCalls = lzLast.engineCalls
          /\ ~lzInitialized
    /\ (lzLast.op = "parse_and_export" /\ lzLast.initialized) =>
          /\ lzInitialized
          /\ lzEngineInits = lzLast.engineInits
          /\ lzConverter = lzLast.converter
          /\ lzEmbedImages = lzLast.embed_images
    /\ (FoundUninitialized("parse_and_export") /\ lzParser = "docling") =>
          IF InvalidOption(lzLast.kwargs)
          THEN /\ RaisedValueError
               /\ ~lzInitialized
               /\ lzConverter = NoConverter
               /\ lzEmbedImages = "None"
               /\ lzEngineCalls = lzLast.engineCalls
          ELSE /\ lzInitialized
               /\ lzConverter = DocumentConverter(lzLast.kwargs)
    /\ (FoundUninitialized("parse_and_export") /\ ~lzInitialized) =>
          /\ RaisedValueError
          /\ lzConverter = NoConverter
          /\ lzEngineCalls = lzLast.engineCalls

\* C30 witness: two calls on a new docling parser left it uninitialised,
\* the latest a parse_and_export with an unknown backend that raised
C30_Witness ==
    /\ lzParser = "docling"
    /\ lzOps = 2
    /\ FoundUninitialized("parse_and_export")
    /\ lzLast.kwargs.ocr_options = "tesseract"
    /\ lzLast.kwargs.tableformer_mode = "FAST"
    /\ lzLast.kwargs.backend = "pdfminer"
    /\ RaisedValueError
    /\ ~lzInitialized
    /\ lzEngineCalls = 0

=============================================================================
